---- MODULE Spec2Model ----
(***************************************************************************)
(* Model of ytui: the navigation state machine of src/main.rs (the Page    *)
(* stack, request/continue and the main event loop) and the stream         *)
(* resolution of src/structs/video.rs (format selection under the          *)
(* configured selectors of src/config.rs).                                 *)
(***************************************************************************)
EXTENDS Integers, Sequences, FiniteSets, TLC

VARIABLES
    page,              \* main.rs: `page`, the current Page and its owned predecessors
    list,              \* main.rs: `list`, the titles shown on the left
    info_vec,          \* main.rs: `info_vec`, the (detail, Node) pairs
    list_state,        \* main.rs: `list_state.selected()`, always Some(index)
    js_script,         \* main.rs: `js_script`, None until the first video activation
    anchors,           \* main.rs:603-663: the markers found by the last script acquisition
    pc,                \* where the process is: "loop", "ack", "exit", "panic"
    raw_mode,          \* crossterm raw mode enabled
    alternate_screen,  \* crossterm alternate screen entered
    transfers,         \* HTTP transfers performed on `easy` by the last handler
    spawned,           \* player processes spawned by the last handler
    last,              \* the event read at main.rs:486 by the handler that ran last
    adaptiveFormats,   \* video.rs: StreamingData::Video.adaptiveFormats given to play
    video_selector,    \* config.rs: VIDEO_SELECTOR
    audio_selector,    \* config.rs: AUDIO_SELECTOR
    ideal_video,       \* video.rs: `ideal_video`, position in adaptiveFormats, 0 = None
    ideal_audio,       \* video.rs: `ideal_audio`, position in adaptiveFormats, 0 = None
    play_pc,           \* position of VideoResponse::play: "start", "spawned", "panic"
    job,               \* video.rs: the URL or signatureCipher of a selected format
    answer,            \* video.rs: the argument of video_player made from it
    hlsManifestUrl,    \* video.rs: StreamingData::Stream.hlsManifestUrl, None without one
    in_flight,         \* utils.rs: the transfers that transfer.perform() has not returned from
    perform            \* utils.rs: what the last transfer.perform() returned and delivered

nav_vars == <<page, list, info_vec, list_state, js_script, anchors, pc, raw_mode,
              alternate_screen, transfers, spawned, last>>
play_vars == <<adaptiveFormats, video_selector, audio_selector, ideal_video,
               ideal_audio, play_pc, job, answer, hlsManifestUrl>>
io_vars == <<in_flight, perform>>
vars == <<nav_vars, play_vars, io_vars>>

(***************************************************************************)
(* Bounds                                                                  *)
(***************************************************************************)
MaxFormats == 3
\* The page stack is followed up to MaxDepth previous links; the search box and
\* 'n', which open on any item of any page, are followed one level less
MaxDepth == 3
\* Signatures are deciphered up to MaxSigLen characters
MaxSigLen == 130
\* Responses of live streams are drawn with up to MaxLiveFormats adaptive formats
MaxLiveFormats == 1
\* A response is played up to MaxRuns times
MaxRuns == 2

(***************************************************************************)
(* Option<T>: None is the empty sequence, Some(t) the one-element sequence *)
(***************************************************************************)
None == <<>>
Some(t) == <<t>>
IsSome(o) == o # <<>>
Unwrap(o) == o[1]

Min(a, b) == IF a < b THEN a ELSE b

(***************************************************************************)
(* config.rs: Selector::is_better and the selector lists                   *)
(***************************************************************************)
\* Ord::cmp on integers (booleans are compared as false < true, see BoolInt)
cmp(a, b) == IF a < b THEN "Less" ELSE IF a = b THEN "Equal" ELSE "Greater"

BoolInt(b) == IF b THEN 1 ELSE 0

abs_diff(a, b) == IF a < b THEN b - a ELSE a - b

\* is_better with the Lowest arm comparing the wrong way round
is_better_LowestReversed(selector, x, y) ==
    CASE selector.how = "Highest" -> cmp(y, x)
      [] selector.how = "ClosestTo" ->
            cmp(abs_diff(selector.target, x), abs_diff(selector.target, y))
      [] selector.how = "Lowest" -> cmp(y, x)

\* Selector::is_better(&self, x, y): Greater when y is better than x
is_better(selector, x, y) ==
    CASE selector.how = "Highest" -> cmp(y, x)
      [] selector.how = "ClosestTo" ->
            cmp(abs_diff(selector.target, x), abs_diff(selector.target, y))
      [] selector.how = "Lowest" -> cmp(x, y)

Highest == [how |-> "Highest", target |-> 0]
Lowest == [how |-> "Lowest", target |-> 0]
ClosestTo(t) == [how |-> "ClosestTo", target |-> t]

\* MediaFormat::to_string, as the characters of the name
MediaFormatToString(format) ==
    IF format = "Mp4" THEN <<"m", "p", "4">> ELSE <<"w", "e", "b", "m">>

\* str::contains on strings held as sequences of characters
Contains(s, t) ==
    \E i \in 0..(Len(s) - Len(t)) : SubSeq(s, i + 1, i + Len(t)) = t

\* VideoSelector / AudioSelector variants
Bitrate(selector) == [crit |-> "Bitrate", selector |-> selector, format |-> "Mp4", language |-> ""]
Quality(selector) == [crit |-> "Quality", selector |-> selector, format |-> "Mp4", language |-> ""]
Format(format) == [crit |-> "Format", selector |-> Highest, format |-> format, language |-> ""]
Language(language) == [crit |-> "Language", selector |-> Highest, format |-> "Mp4", language |-> language]

VIDEO_SELECTOR == <<Quality(ClosestTo(720)), Bitrate(Lowest)>>
AUDIO_SELECTOR == <<Language("English"), Bitrate(Lowest)>>

(***************************************************************************)
(* video.rs: AdaptiveFormat                                                *)
(***************************************************************************)
IsVideo(f) == f.kind \in {"Video", "VideoCipher"}
IsAudio(f) == f.kind \in {"Audio", "AudioCipher"}

\* `audio_track().as_ref().is_some_and(|x| &x.displayName == language)`
TrackIs(f, language) == IsSome(f.audioTrack) /\ Unwrap(f.audioTrack) = language

\* The comparison of one video selector: current best `video` against the
\* candidate `adaptive_format` (video.rs:303-314)
VideoOrdering(video_selector_k, video, adaptive_format) ==
    CASE video_selector_k.crit = "Bitrate" ->
            is_better(video_selector_k.selector, video.bitrate, adaptive_format.bitrate)
      [] video_selector_k.crit = "Format" ->
            cmp(BoolInt(Contains(adaptive_format.mimeType,
                                 MediaFormatToString(video_selector_k.format))),
                BoolInt(Contains(video.mimeType,
                                 MediaFormatToString(video_selector_k.format))))
      [] video_selector_k.crit = "Quality" ->
            is_better(video_selector_k.selector, video.height, adaptive_format.height)

\* The closure given to is_some_and in the video arm (video.rs:285-328),
\* from selector k on
RECURSIVE VideoClosure(_, _, _, _)
VideoClosure(selectors, k, video, adaptive_format) ==
    IF k > Len(selectors) THEN TRUE
    ELSE LET o == VideoOrdering(selectors[k], video, adaptive_format)
         IN CASE o = "Less" -> TRUE
              [] o = "Equal" -> VideoClosure(selectors, k + 1, video, adaptive_format)
              [] o = "Greater" -> FALSE

\* The comparison of one audio selector (video.rs:353-370)
AudioOrdering(audio_selector_k, audio, adaptive_format) ==
    CASE audio_selector_k.crit = "Bitrate" ->
            is_better(audio_selector_k.selector, audio.bitrate, adaptive_format.bitrate)
      [] audio_selector_k.crit = "Format" ->
            cmp(BoolInt(Contains(adaptive_format.mimeType,
                                 MediaFormatToString(audio_selector_k.format))),
                BoolInt(Contains(audio.mimeType,
                                 MediaFormatToString(audio_selector_k.format))))
      [] audio_selector_k.crit = "Language" ->
            cmp(BoolInt(TrackIs(adaptive_format, audio_selector_k.language)),
                BoolInt(TrackIs(audio, audio_selector_k.language)))

\* The closure given to is_some_and in the audio arm (video.rs:335-384)
RECURSIVE AudioClosure(_, _, _, _)
AudioClosure(selectors, k, audio, adaptive_format) ==
    IF k > Len(selectors) THEN FALSE
    ELSE LET o == AudioOrdering(selectors[k], audio, adaptive_format)
         IN CASE o = "Less" -> FALSE
              [] o = "Equal" -> AudioClosure(selectors, k + 1, audio, adaptive_format)
              [] o = "Greater" -> TRUE

\* `for adaptive_format in adaptiveFormats` (video.rs:280-391): the pair
\* <<ideal_video, ideal_audio>> after the first n formats, as positions
RECURSIVE SelectFormats(_, _, _, _)
SelectFormats(formats, vsel, asel, n) ==
    IF n = 0 THEN <<0, 0>>
    ELSE LET prev == SelectFormats(formats, vsel, asel, n - 1)
             adaptive_format == formats[n]
         IN IF IsVideo(adaptive_format)
            THEN LET found == ~(prev[1] # 0 /\
                                VideoClosure(vsel, 1, formats[prev[1]], adaptive_format))
                 IN <<IF found THEN n ELSE prev[1], prev[2]>>
            ELSE LET found == ~(prev[2] # 0 /\
                                AudioClosure(asel, 1, formats[prev[2]], adaptive_format))
                 IN <<prev[1], IF found THEN n ELSE prev[2]>>

\* What play does after the selection (video.rs:393-470), as far as it
\* depends on the kinds of the two selected formats
PlayOutcome_WithoutAudio(formats, iv, ia) ==
    IF iv = 0 THEN "panic"
    ELSE IF ia = 0 THEN "spawned"
    ELSE IF formats[ia].kind = "Audio" /\ formats[iv].kind = "VideoCipher"
         THEN "panic"
    ELSE "spawned"

PlayOutcome(formats, iv, ia) ==
    IF iv = 0 THEN "panic"                        \* "Should be at least one video track"
    ELSE IF ia = 0 THEN "panic"                   \* "Should be at least one audio track"
    ELSE IF formats[ia].kind = "Audio" /\ formats[iv].kind = "VideoCipher"
         THEN "panic"                             \* "`n` challenge should be solved"
    ELSE "spawned"

(***************************************************************************)
(* structs/mod.rs: Node                                                    *)
(***************************************************************************)
NodeHeader(token) == [kind |-> "Header", a |-> token, b |-> None]
NodeVideo(video_id) == [kind |-> "Video", a |-> video_id, b |-> None]
NodeGame(browse_id, params) == [kind |-> "Game", a |-> browse_id, b |-> params]
NodeSearch(query, params) == [kind |-> "Search", a |-> query, b |-> params]
NodeChannel(browse_id, params) == [kind |-> "Channel", a |-> browse_id, b |-> params]
NodePlaylist(playlist_id) == [kind |-> "Playlist", a |-> playlist_id, b |-> None]
NodeTranscript(params) == [kind |-> "Transcript", a |-> params, b |-> None]
NodeCommentSection(token) == [kind |-> "CommentSection", a |-> token, b |-> None]
NodeComment(token) == [kind |-> "Comment", a |-> token, b |-> None]
NodeNone == [kind |-> "None", a |-> "", b |-> None]

(***************************************************************************)
(* The backend: what the platform answers to each request.  A response is  *)
(* the sequence of its content entries, each a displayable item or a       *)
(* continuation item carrying a token.                                     *)
(***************************************************************************)
Item(title, node) == [type |-> "item", title |-> title, node |-> node, token |-> ""]
Token(token) == [type |-> "continuation", title |-> "", node |-> NodeNone, token |-> token]
\* The description panel of a NextResponse: the titles of its header items,
\* in order, and the video the response is about
Description(headers, video_id) ==
    [type |-> "description", title |-> "description", node |-> NodeVideo(video_id),
     token |-> "", headers |-> headers]

\* BrowseRequest / SearchRequest / NextRequest as sent by request_post, and
\* the GET of request_get
HttpRequest(method, url, continuation, browseId, params, videoId, query) ==
    [method |-> method, url |-> url, continuation |-> continuation,
     browseId |-> browseId, params |-> params, videoId |-> videoId, query |-> query]

Get(url) == HttpRequest("GET", url, None, None, None, None, None)
PostContinuation(url, continuation) ==
    HttpRequest("POST", url, continuation, None, None, None, None)

\* Answer to a request that carries a continuation token
ContinuationEntries(token) ==
    CASE token = "h1" -> <<Item("age", NodeVideo("vAge")), Item("", NodeNone)>>
      [] token = "cat" -> <<Item("live", NodeVideo("vLive")),
                            Item("qB", NodeSearch("qB", None)), Token("c1")>>
      [] token = "c1" -> <<Item("ok", NodeVideo("vOK"))>>
      [] token = "g1" -> <<Item("channel", NodeChannel("ch", None))>>
      [] token = "s1" -> <<Item("ok", NodeVideo("vOK"))>>
      [] token = "n1" -> <<Item("ok", NodeVideo("vOK"))>>
      [] token = "cs" -> <<Item("thread", NodeComment("cm")), Token("cs1")>>
      [] token = "cs1" -> <<Item("comment", NodeNone)>>
      [] token = "cm" -> <<Item("reply", NodeNone), Token("cm1")>>
      [] token = "cm1" -> <<Token("cm2")>>
      [] OTHER -> <<>>

\* Answer to a request that carries no continuation token
InitialEntries(request) ==
    CASE request.url = "https://www.youtube.com" ->
            <<Item("chip", NodeHeader("cat")), Item("ok", NodeVideo("vOK")),
              Item("game", NodeGame("gA", None)), Token("h1")>>
      [] request.url = "/youtubei/v1/browse" ->
            <<Item("bad", NodeVideo("vBad")), Token("g1")>>
      [] request.url = "/youtubei/v1/search" ->
            IF request.query = Some("qA")
            THEN <<Item("results", NodeNone), Item("playlist", NodePlaylist("pl")),
                   Token("s1")>>
            ELSE <<Item("results", NodeNone)>>
      [] request.url = "/youtubei/v1/next" ->
            <<Description(<<"description">>, Unwrap(request.videoId)),
              Item("Transcript", NodeTranscript("tr")),
              Item("Top comments", NodeCommentSection("cs")), Token("n1")>>
      [] request.url = "/youtubei/v1/get_transcript" ->
            <<Item("0:00", NodeNone)>>
      [] OTHER -> <<>>

Respond(request) ==
    IF IsSome(request.continuation)
    THEN ContinuationEntries(Unwrap(request.continuation))
    ELSE InitialEntries(request)

(***************************************************************************)
(* The response decoders                                                   *)
(***************************************************************************)
\* IntoWidgets::into_widgets of ContinuationResponse<T>: pushes every item on
\* the two vectors and returns the last continuation token met
RECURSIVE into_widgets(_, _, _)
into_widgets(entries, titles, info) ==
    IF entries = <<>> THEN [list |-> titles, info_vec |-> info, continuation |-> None]
    ELSE LET n == Len(entries)
             rest == into_widgets(SubSeq(entries, 1, n - 1), titles, info)
             e == entries[n]
         IN IF e.type = "continuation"
            THEN [rest EXCEPT !.continuation = Some(e.token)]
            ELSE [rest EXCEPT !.list = Append(@, e.title),
                              !.info_vec = Append(@, <<e.title, e.node>>)]

\* The decoders that build fresh vectors: (list, info, new_continuation)
RichGridRenderer_into_widgets(entries) == into_widgets(entries, <<>>, <<>>)
GeneralResponse_into_widgets(entries) == into_widgets(entries, <<>>, <<>>)
SearchResponse_into_widgets(entries) == into_widgets(entries, <<>>, <<>>)
\* NextResponse::into_widgets: a description panel pushes one title for each
\* of its header items and one detail
RECURSIVE NextResponse_into_widgets(_)
NextResponse_into_widgets(entries) ==
    IF entries = <<>> THEN [list |-> <<>>, info_vec |-> <<>>, continuation |-> None]
    ELSE LET n == Len(entries)
             rest == NextResponse_into_widgets(SubSeq(entries, 1, n - 1))
             e == entries[n]
         IN CASE e.type = "continuation" -> [rest EXCEPT !.continuation = Some(e.token)]
              [] e.type = "description" ->
                    [rest EXCEPT !.list = @ \o e.headers,
                                 !.info_vec = Append(@, <<e.title, e.node>>)]
              [] OTHER -> [rest EXCEPT !.list = Append(@, e.title),
                                       !.info_vec = Append(@, <<e.title, e.node>>)]
TranscriptResponse_into_widgets(entries) == into_widgets(entries, <<>>, <<>>)

(***************************************************************************)
(* main.rs: Page                                                           *)
(***************************************************************************)
PageHome(continuation) == [kind |-> "Home", continuation |-> continuation]
PageCategory(continuation, previous) ==
    [kind |-> "Category", continuation |-> continuation, previous |-> previous]
PageGame(browse_id, continuation, params, previous) ==
    [kind |-> "Game", browse_id |-> browse_id, continuation |-> continuation,
     params |-> params, previous |-> previous]
PageSearch(query, params, continuation, previous) ==
    [kind |-> "Search", query |-> query, params |-> params,
     continuation |-> continuation, previous |-> previous]
PageNext(video_id, continuation, previous) ==
    [kind |-> "Next", video_id |-> video_id, continuation |-> continuation,
     previous |-> previous]
PageTranscript(params, previous) ==
    [kind |-> "Transcript", params |-> params, previous |-> previous]
PageCommentSection(first_continuation, continuation, previous) ==
    [kind |-> "CommentSection", first_continuation |-> first_continuation,
     continuation |-> continuation, previous |-> previous]
PageComment(first_continuation, continuation, previous) ==
    [kind |-> "Comment", first_continuation |-> first_continuation,
     continuation |-> continuation, previous |-> previous]

\* Number of `previous` links below a page
RECURSIVE Depth(_)
Depth(p) == IF p.kind = "Home" THEN 0 ELSE 1 + Depth(p.previous[1])

\* request, were a comment page to post the token it stores last instead of
\* its first_continuation
request_PostsStoredToken(p) ==
    CASE p.kind = "Home" ->
            LET req == Get("https://www.youtube.com")
                w == RichGridRenderer_into_widgets(Respond(req))
            IN [page |-> [p EXCEPT !.continuation = w.continuation],
                list |-> w.list, info_vec |-> w.info_vec, transfers |-> <<req>>]
      [] p.kind = "Category" ->
            LET req == PostContinuation("/youtubei/v1/browse", p.continuation)
                w == into_widgets(Respond(req), <<>>, <<>>)
            IN [page |-> p,
                list |-> w.list, info_vec |-> w.info_vec, transfers |-> <<req>>]
      [] p.kind = "Game" ->
            LET req == HttpRequest("POST", "/youtubei/v1/browse", None,
                                   Some(p.browse_id), p.params, None, None)
                w == GeneralResponse_into_widgets(Respond(req))
            IN [page |-> [p EXCEPT !.continuation = w.continuation],
                list |-> w.list, info_vec |-> w.info_vec, transfers |-> <<req>>]
      [] p.kind = "Search" ->
            LET req == HttpRequest("POST", "/youtubei/v1/search", None,
                                   None, p.params, None, Some(p.query))
                w == SearchResponse_into_widgets(Respond(req))
            IN [page |-> [p EXCEPT !.continuation = w.continuation],
                list |-> w.list, info_vec |-> w.info_vec, transfers |-> <<req>>]
      [] p.kind = "Next" ->
            LET req == HttpRequest("POST", "/youtubei/v1/next", None,
                                   None, None, Some(p.video_id), None)
                w == NextResponse_into_widgets(Respond(req))
            IN [page |-> [p EXCEPT !.continuation = w.continuation],
                list |-> w.list, info_vec |-> w.info_vec, transfers |-> <<req>>]
      [] p.kind = "Transcript" ->
            LET req == HttpRequest("POST", "/youtubei/v1/get_transcript", None,
                                   None, Some(p.params), None, None)
                w == TranscriptResponse_into_widgets(Respond(req))
            IN [page |-> p,
                list |-> w.list, info_vec |-> w.info_vec, transfers |-> <<req>>]
      [] p.kind \in {"CommentSection", "Comment"} ->
            LET req == PostContinuation("/youtubei/v1/next",
                                        IF IsSome(p.continuation) THEN p.continuation
                                        ELSE Some(p.first_continuation))
                w == into_widgets(Respond(req), <<>>, <<>>)
            IN [page |-> [p EXCEPT !.continuation = w.continuation],
                list |-> w.list, info_vec |-> w.info_vec, transfers |-> <<req>>]

\* Page::request: the page afterwards, the two fresh vectors and the
\* transfers performed
request(p) ==
    CASE p.kind = "Home" ->
            LET req == Get("https://www.youtube.com")
                w == RichGridRenderer_into_widgets(Respond(req))
            IN [page |-> [p EXCEPT !.continuation = w.continuation],
                list |-> w.list, info_vec |-> w.info_vec, transfers |-> <<req>>]
      [] p.kind = "Category" ->
            LET req == PostContinuation("/youtubei/v1/browse", p.continuation)
                w == into_widgets(Respond(req), <<>>, <<>>)
            IN [page |-> p,
                list |-> w.list, info_vec |-> w.info_vec, transfers |-> <<req>>]
      [] p.kind = "Game" ->
            LET req == HttpRequest("POST", "/youtubei/v1/browse", None,
                                   Some(p.browse_id), p.params, None, None)
                w == GeneralResponse_into_widgets(Respond(req))
            IN [page |-> [p EXCEPT !.continuation = w.continuation],
                list |-> w.list, info_vec |-> w.info_vec, transfers |-> <<req>>]
      [] p.kind = "Search" ->
            LET req == HttpRequest("POST", "/youtubei/v1/search", None,
                                   None, p.params, None, Some(p.query))
                w == SearchResponse_into_widgets(Respond(req))
            IN [page |-> [p EXCEPT !.continuation = w.continuation],
                list |-> w.list, info_vec |-> w.info_vec, transfers |-> <<req>>]
      [] p.kind = "Next" ->
            LET req == HttpRequest("POST", "/youtubei/v1/next", None,
                                   None, None, Some(p.video_id), None)
                w == NextResponse_into_widgets(Respond(req))
            IN [page |-> [p EXCEPT !.continuation = w.continuation],
                list |-> w.list, info_vec |-> w.info_vec, transfers |-> <<req>>]
      [] p.kind = "Transcript" ->
            LET req == HttpRequest("POST", "/youtubei/v1/get_transcript", None,
                                   None, Some(p.params), None, None)
                w == TranscriptResponse_into_widgets(Respond(req))
            IN [page |-> p,
                list |-> w.list, info_vec |-> w.info_vec, transfers |-> <<req>>]
      [] p.kind \in {"CommentSection", "Comment"} ->
            LET req == PostContinuation("/youtubei/v1/next", Some(p.first_continuation))
                w == into_widgets(Respond(req), <<>>, <<>>)
            IN [page |-> [p EXCEPT !.continuation = w.continuation],
                list |-> w.list, info_vec |-> w.info_vec, transfers |-> <<req>>]

\* The endpoint a page continues on
ContinueUrl(p) ==
    CASE p.kind \in {"Home", "Game"} -> "/youtubei/v1/browse"
      [] p.kind = "Search" -> "/youtubei/v1/search"
      [] OTHER -> "/youtubei/v1/next"

\* The arms of Page::continue: the variants matched with
\* `continuation: continuation @ Some(_)`
ContinueArms == {"Home", "Game", "Search", "Next", "CommentSection", "Comment"}

\* continue, were its arms to match any continuation instead of Some(_)
continue_MatchesNone(p, titles, info) ==
    IF p.kind \in ContinueArms
    THEN LET req == PostContinuation(ContinueUrl(p), p.continuation)
             w == into_widgets(Respond(req), titles, info)
         IN [page |-> [p EXCEPT !.continuation = w.continuation],
             list |-> w.list, info_vec |-> w.info_vec, transfers |-> <<req>>]
    ELSE [page |-> p, list |-> titles, info_vec |-> info, transfers |-> <<>>]

\* Page::continue: adds items to the passed vectors
continue(p, titles, info) ==
    IF p.kind \in ContinueArms /\ IsSome(p.continuation)
    THEN LET req == PostContinuation(ContinueUrl(p), p.continuation)
             w == into_widgets(Respond(req), titles, info)
         IN [page |-> [p EXCEPT !.continuation = w.continuation],
             list |-> w.list, info_vec |-> w.info_vec, transfers |-> <<req>>]
    ELSE [page |-> p, list |-> titles, info_vec |-> info, transfers |-> <<>>]

(***************************************************************************)
(* The player responses of the backend                                     *)
(***************************************************************************)
Mp4Mime(prefix) == <<prefix, "/", "m", "p", "4">>
WebmMime(prefix) == <<prefix, "/", "w", "e", "b", "m">>

\* The `url` of a plain format and the `signatureCipher` of a ciphered one,
\* spelled from the other fields of the format so that two formats share
\* one only when they are equal. The formats of one response carry the same
\* `n` challenge (video.rs:393)
FormatTag(bitrate, detail, mimeType) ==
    <<mimeType[1], mimeType[Len(mimeType)], ToString(bitrate), detail>>
FormatUrl(kind, tag) ==
    IF kind \in {"Video", "Audio"}
    THEN <<"u", "?">> \o tag \o <<"&", "n", "=", "A", "B", "&", "x">>
    ELSE <<>>
FormatCipher(kind, tag) ==
    IF kind \in {"VideoCipher", "AudioCipher"}
    THEN <<"s", "=", "X", "Y", "Z", "&", "s", "p", "=", "g",
           "&", "u", "r", "l", "=", "h", "%", "3", "A">> \o tag
    ELSE <<>>

VideoFormat(kind, bitrate, height, mimeType) ==
    [kind |-> kind, bitrate |-> bitrate, height |-> height, mimeType |-> mimeType,
     audioTrack |-> None,
     url |-> FormatUrl(kind, FormatTag(bitrate, ToString(height), mimeType)),
     signatureCipher |-> FormatCipher(kind, FormatTag(bitrate, ToString(height), mimeType))]
AudioFormat(kind, bitrate, audioTrack, mimeType) ==
    [kind |-> kind, bitrate |-> bitrate, height |-> 0, mimeType |-> mimeType,
     audioTrack |-> audioTrack,
     url |-> FormatUrl(kind, FormatTag(bitrate,
                 IF IsSome(audioTrack) THEN Unwrap(audioTrack) ELSE "-", mimeType)),
     signatureCipher |-> FormatCipher(kind, FormatTag(bitrate,
                 IF IsSome(audioTrack) THEN Unwrap(audioTrack) ELSE "-", mimeType))]

\* serde's untagged StreamingData: the first variant that fits, Stream with
\* an hlsManifestUrl whatever else the object holds (video.rs:198-209)
StreamingData(hls, formats) ==
    IF IsSome(hls)
    THEN [streamingData |-> "Stream", hlsManifestUrl |-> Unwrap(hls),
          adaptiveFormats |-> <<>>]
    ELSE [streamingData |-> "Video", hlsManifestUrl |-> <<>>,
          adaptiveFormats |-> formats]

\* from_slice::<VideoResponse> of the player response of a video, and the
\* JSON embedded in its watch page
PlayerResponse(video_id) ==
    CASE video_id = "vOK" ->
            [result |-> "ok", streamingData |-> "Video",
             adaptiveFormats |-> <<VideoFormat("Video", 200, 720, Mp4Mime("v")),
                                   VideoFormat("Video", 100, 720, WebmMime("v")),
                                   AudioFormat("Audio", 100, Some("English"), Mp4Mime("a"))>>]
      [] video_id = "vLive" ->
            [result |-> "ok", streamingData |-> "Stream", adaptiveFormats |-> <<>>,
             hlsManifestUrl |-> <<"h", "l", "s", "/", "v", "L", "i", "v", "e">>]
      [] video_id = "vAge" ->
            [result |-> "missing streamingData", streamingData |-> "",
             adaptiveFormats |-> <<>>]
      [] OTHER ->
            [result |-> "invalid", streamingData |-> "", adaptiveFormats |-> <<>>]

(***************************************************************************)
(* video.rs: strings, as sequences of characters                           *)
(***************************************************************************)
\* No format is being resolved, no transfer has been performed
NoTransfer == [result |-> "none", received |-> "none"]
NoJob == [kind |-> "none"]
NoAnswer == [outcome |-> "idle"]

\* str::find: the offset of the first occurrence of needle, None without one
find(hay, needle) ==
    LET hits == {i \in 1..Len(hay) :
                    /\ i + Len(needle) - 1 <= Len(hay)
                    /\ SubSeq(hay, i, i + Len(needle) - 1) = needle}
    IN IF hits = {} THEN None
       ELSE Some((CHOOSE i \in hits : \A j \in hits : i <= j) - 1)

\* &string[start..end]
Slice(string, start, end) == SubSeq(string, start + 1, end)

\* String::replace_range(start..end, with)
replace_range(string, start, end, with) ==
    SubSeq(string, 1, start) \o with \o SubSeq(string, end + 1, Len(string))

Reverse(a) == [i \in 1..Len(a) |-> a[Len(a) + 1 - i]]

\* script.call("f", n): the `n` functions a player script may define
NFunctions == {"reverse", "ZZ99", "twice", "tail"}
call_f(f, n) ==
    CASE f = "reverse" -> Reverse(n)
      [] f = "ZZ99" -> <<"Z", "Z", "9", "9">>
      [] f = "twice" -> n \o n
      [] f = "tail" -> IF n = <<>> THEN <<>> ELSE Tail(n)

\* The AdaptiveFormat::Video arm of the first argument of video_player
\* (video.rs:400-421)
SolveChallenge_CutsToEnd(url, f) ==
    LET found == find(url, <<"&", "n", "=">>)
    IN IF ~IsSome(found) THEN [outcome |-> "panic", called_with |-> <<>>, url |-> url]
       ELSE LET n_start == Unwrap(found) + 3
                n_end == Len(url)
                decrypted_n == call_f(f, Slice(url, n_start, n_end))
            IN [outcome |-> "ok", called_with |-> Slice(url, n_start, n_end),
                url |-> replace_range(url, n_start, n_end, decrypted_n)]

SolveChallenge(url, f) ==
    LET found == find(url, <<"&", "n", "=">>)
    IN IF ~IsSome(found) THEN [outcome |-> "panic", called_with |-> <<>>, url |-> url]
       ELSE LET n_start == Unwrap(found) + 3
                amp == find(Slice(url, n_start, Len(url)), <<"&">>)
                n_end == n_start + (IF IsSome(amp) THEN Unwrap(amp) ELSE Len(url))
            IN IF n_end > Len(url)
               THEN [outcome |-> "panic", called_with |-> <<>>, url |-> url]
               ELSE LET decrypted_n == call_f(f, Slice(url, n_start, n_end))
                    IN [outcome |-> "ok", called_with |-> Slice(url, n_start, n_end),
                        url |-> replace_range(url, n_start, n_end, decrypted_n)]

\* str::split('&'): the pieces between the separators
RECURSIVE split(_)
split(string) ==
    LET amp == find(string, <<"&">>)
    IN IF ~IsSome(amp) THEN <<string>>
       ELSE <<Slice(string, 0, Unwrap(amp))>>
            \o split(Slice(string, Unwrap(amp) + 1, Len(string)))

\* str::replace("%25", "%")
RECURSIVE replace_percent(_)
replace_percent(string) ==
    LET at == find(string, <<"%", "2", "5">>)
    IN IF ~IsSome(at) THEN string
       ELSE Slice(string, 0, Unwrap(at)) \o <<"%">>
            \o replace_percent(Slice(string, Unwrap(at) + 3, Len(string)))

\* u8::from_str_radix(.., 16) of one digit, and the character of a byte
HexDigits == <<"0", "1", "2", "3", "4", "5", "6", "7", "8", "9",
               "A", "B", "C", "D", "E", "F">>
IsHex(c) == \E i \in 1..16 : HexDigits[i] = c
HexValue(c) == (CHOOSE i \in 1..16 : HexDigits[i] = c) - 1
FromByte(byte) ==
    CASE byte = 37 -> "%"
      [] byte = 38 -> "&"
      [] byte = 47 -> "/"
      [] byte = 49 -> "1"
      [] byte = 52 -> "4"
      [] byte = 58 -> ":"
      [] byte = 61 -> "="
      [] byte = 65 -> "A"
      [] OTHER -> "?"

\* Every '%' of the string is followed by two hexadecimal digits
RECURSIVE WellEscaped(_)
WellEscaped(string) ==
    LET at == find(string, <<"%">>)
    IN IF ~IsSome(at) THEN TRUE
       ELSE LET rest == Slice(string, Unwrap(at), Len(string))
            IN /\ Len(rest) >= 3
               /\ IsHex(rest[2])
               /\ IsHex(rest[3])
               /\ WellEscaped(SubSeq(rest, 4, Len(rest)))

\* urldecode::decode, one pass over the string; a '%' that does not start an
\* escape is kept (on such a string the crate may also panic, see
\* decipher_signature)
RECURSIVE decode(_)
decode(string) ==
    LET at == find(string, <<"%">>)
    IN IF ~IsSome(at) THEN string
       ELSE LET rest == Slice(string, Unwrap(at), Len(string))
            IN Slice(string, 0, Unwrap(at))
               \o (IF Len(rest) >= 3 /\ IsHex(rest[2]) /\ IsHex(rest[3])
                   THEN <<FromByte(16 * HexValue(rest[2]) + HexValue(rest[3]))>>
                        \o decode(SubSeq(rest, 4, Len(rest)))
                   ELSE <<"%">> \o decode(Tail(rest)))

\* The helpers the `sig` function of a player script is made of (main.rs:650-652):
\* RV swaps a[0] and a[b % a.length], p4 splices b characters off the front,
\* wa reverses
RV(b) == [op |-> "RV", b |-> b]
p4(b) == [op |-> "p4", b |-> b]
wa == [op |-> "wa", b |-> 0]
RunStep(a, step) ==
    CASE step.op = "RV" ->
            IF a = <<>> THEN a
            ELSE LET k == (step.b % Len(a)) + 1
                 IN [a EXCEPT ![1] = a[k], ![k] = a[1]]
      [] step.op = "p4" -> SubSeq(a, step.b + 1, Len(a))
      [] step.op = "wa" -> Reverse(a)

\* script.call("s", a): the steps of the function, in order, on the characters
RECURSIVE call_s(_, _)
call_s(program, a) ==
    IF program = <<>> THEN a
    ELSE call_s(Tail(program), RunStep(a, Head(program)))

\* ('\0'..char::from_u32_unchecked(len)).collect::<String>(), as code points
Positions(len) == [i \in 1..len |-> i - 1]

\* str::bytes: the UTF-8 encoding of code points below 0x800
RECURSIVE bytes(_)
bytes(chars) ==
    IF chars = <<>> THEN <<>>
    ELSE IF Len(chars) = 1
    THEN (IF chars[1] < 128 THEN <<chars[1]>>
          ELSE <<192 + (chars[1] \div 64), 128 + (chars[1] % 64)>>)
    ELSE LET half == Len(chars) \div 2
         IN bytes(SubSeq(chars, 1, half)) \o bytes(SubSeq(chars, half + 1, Len(chars)))

\* The last element of decipher_signature's concat (video.rs:57-69)
Descramble(program, s) ==
    LET indices == bytes(call_s(program, Positions(Len(s))))
    IN IF \E k \in 1..Len(indices) : indices[k] >= Len(s)
       THEN [outcome |-> "panic", signature |-> <<>>]
       ELSE [outcome |-> "ok", signature |-> [k \in 1..Len(indices) |-> s[indices[k] + 1]]]

\* decipher_signature (video.rs:42-72); lenient tells what urldecode::decode
\* does with a '%' that starts no escape: keep it, or panic
decipher_signature(program, signature_cipher, lenient) ==
    LET pieces == split(signature_cipher)
        n == Len(pieces)
    IN IF n < 3 \/ Len(pieces[n]) < 4 \/ Len(pieces[n - 1]) < 3 \/ Len(pieces[n - 2]) < 2
       THEN [outcome |-> "panic", out |-> <<>>, signature |-> <<>>]
       ELSE LET url == Slice(pieces[n], 4, Len(pieces[n]))
                sp == Slice(pieces[n - 1], 3, Len(pieces[n - 1]))
                s_field == Slice(pieces[n - 2], 2, Len(pieces[n - 2]))
                s == decode(s_field)
                descrambled == Descramble(program, s)
            IN IF \/ ~lenient /\ ~WellEscaped(s_field)
                  \/ ~lenient /\ ~WellEscaped(replace_percent(url))
                  \/ descrambled.outcome = "panic"
               THEN [outcome |-> "panic", out |-> <<>>, signature |-> <<>>]
               ELSE [outcome |-> "ok",
                     out |-> decode(replace_percent(url)) \o <<"&">> \o sp \o <<"=">>
                             \o descrambled.signature,
                     signature |-> descrambled.signature]

\* The functions `f` and `s` of the script that play is handed
PlayerScript == [f |-> "reverse", s |-> <<RV(2), wa>>]

\* The second argument of video_player (video.rs:427-444): the url with
\* decrypted_n in the place of its challenge, or the deciphered signatureCipher
AudioRange(url, start, amp, decrypted_n) ==
    IF ~IsSome(decrypted_n) \/ ~IsSome(amp)
    THEN [outcome |-> "panic", url |-> <<>>, called |-> <<>>]
    ELSE [outcome |-> "ok",
          url |-> replace_range(url, start, start + Unwrap(amp), Unwrap(decrypted_n)),
          called |-> <<>>]

AudioFrom(url, found, decrypted_n) ==
    IF ~IsSome(found) THEN [outcome |-> "panic", url |-> <<>>, called |-> <<>>]
    ELSE AudioRange(url, Unwrap(found) + 3,
                    find(Slice(url, Unwrap(found) + 3, Len(url)), <<"&">>), decrypted_n)

Deciphered(deciphered, decrypted_n) ==
    [outcome |-> deciphered.outcome, url |-> deciphered.out, called |-> <<"s">>,
     decrypted_n |-> decrypted_n]

AudioArgument(audio, decrypted_n) ==
    IF audio.kind = "Audio"
    THEN AudioFrom(audio.url, find(audio.url, <<"&", "n", "=">>), decrypted_n)
    ELSE Deciphered(decipher_signature(PlayerScript.s, audio.signatureCipher, TRUE),
                    decrypted_n)

\* The first argument of video_player (video.rs:399-425), with decrypted_n as
\* it leaves it
Solved(solved) ==
    [outcome |-> solved.outcome, url |-> solved.url, called |-> <<"f">>,
     decrypted_n |-> IF solved.outcome = "ok"
                     THEN Some(call_f(PlayerScript.f, solved.called_with))
                     ELSE None]

VideoArgument(video) ==
    IF video.kind = "Video"
    THEN Solved(SolveChallenge(video.url, PlayerScript.f))
    ELSE Deciphered(decipher_signature(PlayerScript.s, video.signatureCipher, TRUE),
                    None)

\* config.rs: the command lines of the two players
video_player(video_url, audio_url) ==
    [program |-> "mpv",
     args |-> <<<<"-", "-", "a", "u", "d", "i", "o", "-", "f", "i", "l", "e", "=">>
                \o audio_url, video_url>>]
stream_player(hls_manifest_url) ==
    [program |-> "ffplay", args |-> <<hls_manifest_url>>]

\* The command line that the StreamingData::Video arm builds, and the calls
\* of script functions made for it (video.rs:396-458)
CommandLine(first, second, command) ==
    IF first.outcome # "ok" THEN [program |-> "", args |-> <<>>, called |-> <<>>]
    ELSE IF second.outcome # "ok"
         THEN [program |-> "", args |-> <<>>, called |-> first.called]
    ELSE [program |-> command.program, args |-> command.args,
          called |-> first.called \o second.called]

WithSecond(first, second) ==
    CommandLine(first, second, video_player(first.url, second.url))

SecondArgument(first, audio) ==
    WithSecond(first, AudioArgument(audio, first.decrypted_n))

PlayerArguments(formats, iv, ia) ==
    IF iv = 0 \/ ia = 0 THEN [program |-> "", args |-> <<>>, called |-> <<>>]
    ELSE SecondArgument(VideoArgument(formats[iv]), formats[ia])

\* What play leaves behind
Played(ideal_v, ideal_a, outcome, command) ==
    [ideal_video |-> ideal_v, ideal_audio |-> ideal_a, outcome |-> outcome,
     program |-> command.program, args |-> command.args, called |-> command.called]

PlayedFormats(formats, ideal) ==
    Played(ideal[1], ideal[2], PlayOutcome(formats, ideal[1], ideal[2]),
           PlayerArguments(formats, ideal[1], ideal[2]))

\* VideoResponse::play: the selection and what becomes of the player process
play_StreamThroughSelection(response, vsel, asel) ==
    PlayedFormats(response.adaptiveFormats,
                  SelectFormats(response.adaptiveFormats, vsel, asel,
                                Len(response.adaptiveFormats)))

play(response, vsel, asel) ==
    IF response.streamingData = "Stream"
    THEN Played(0, 0, "spawned",
                [program |-> stream_player(response.hlsManifestUrl).program,
                 args |-> stream_player(response.hlsManifestUrl).args,
                 called |-> <<>>])
    ELSE PlayedFormats(response.adaptiveFormats,
                       SelectFormats(response.adaptiveFormats, vsel, asel,
                                     Len(response.adaptiveFormats)))

(***************************************************************************)
(* main.rs: the event loop                                                 *)
(***************************************************************************)
TerminalHeights == {1, 4}
Queries == {"qA"}

\* usize::MAX, held as the largest integer the checker represents
UsizeMax == 2147483647

\* The build profile decides whether an arithmetic overflow panics (overflow
\* checks on) or wraps; the handlers below take either outcome.

\* usize subtraction a - b: the value, wrapped when it underflows
WrappingSub(a, b) == IF a >= b THEN a - b ELSE UsizeMax - (b - a) + 1
SaturatingSub(a, b) == IF a >= b THEN a - b ELSE 0

\* The node under the cursor: `info_vec[list_state.selected()...].1`
SelectedNode == info_vec[list_state + 1][2]

\* The event the loop read
Snapshot(event) == event

\* Panics, were no hook set
Panics_WithoutHook ==
    /\ pc' = "panic"
    /\ UNCHANGED <<raw_mode, alternate_screen>>

\* The panic hook: leaves raw mode and the alternate screen, the process ends
Panics ==
    /\ pc' = "panic"
    /\ raw_mode' = FALSE
    /\ alternate_screen' = FALSE

\* Back at the top of the loop: terminal.draw indexes info_vec[selected]
Draws(selected, info) ==
    IF selected < Len(info)
    THEN pc' = "loop" /\ raw_mode' = TRUE /\ alternate_screen' = TRUE
    ELSE Panics

\* KeyCode::Char('q'): break, then leave raw mode and the alternate screen
Quit ==
    /\ pc = "loop"
    /\ last' = Snapshot("quit")
    /\ pc' = "exit"
    /\ raw_mode' = FALSE
    /\ alternate_screen' = FALSE
    /\ transfers' = <<>>
    /\ spawned' = <<>>
    /\ UNCHANGED <<page, list, info_vec, list_state, js_script, anchors>>
    /\ UNCHANGED <<play_vars, io_vars>>

\* The cursor after a move towards the end: `info_vec.len().min(target + 1) - 1`
\* on the vectors as they are after the continuation
\* MovesTo, were the cursor clamped against the list before the load
MovesTo_ClampsBeforeLoad(c, target) ==
    /\ page' = c.page
    /\ list' = c.list
    /\ info_vec' = c.info_vec
    /\ transfers' = c.transfers
    /\ spawned' = <<>>
    /\ list_state' = WrappingSub(Min(Len(info_vec), target + 1), 1)
    /\ Draws(list_state', c.info_vec)
    /\ UNCHANGED <<js_script, anchors>>
    /\ UNCHANGED <<play_vars, io_vars>>

MovesTo(c, target) ==
    /\ page' = c.page
    /\ list' = c.list
    /\ info_vec' = c.info_vec
    /\ transfers' = c.transfers
    /\ spawned' = <<>>
    /\ \E overflow_checks \in BOOLEAN :
          IF Len(c.info_vec) = 0 /\ overflow_checks
          THEN Panics /\ UNCHANGED list_state
          ELSE /\ list_state' = WrappingSub(Min(Len(c.info_vec), target + 1), 1)
               /\ Draws(list_state', c.info_vec)
    /\ UNCHANGED <<js_script, anchors>>
    /\ UNCHANGED <<play_vars, io_vars>>

Unloaded == [page |-> page, list |-> list, info_vec |-> info_vec, transfers |-> <<>>]

\* MoveDown, were the next page loaded one item before the bottom
MoveDown_LoadsEarly ==
    /\ pc = "loop"
    /\ last' = Snapshot("down")
    /\ LET s == list_state
           c == IF s + 2 >= Len(info_vec) THEN continue(page, list, info_vec)
                ELSE Unloaded
       IN MovesTo(c, s + 1)

\* KeyCode::Down
MoveDown ==
    /\ pc = "loop"
    /\ last' = Snapshot("down")
    /\ LET s == list_state
           c == IF s + 1 = Len(info_vec) THEN continue(page, list, info_vec)
                ELSE Unloaded
       IN MovesTo(c, s + 1)

\* KeyCode::Up
MoveUp ==
    /\ pc = "loop"
    /\ last' = Snapshot("up")
    /\ list_state' = SaturatingSub(list_state, 1)
    /\ Draws(list_state', info_vec)
    /\ transfers' = <<>>
    /\ spawned' = <<>>
    /\ UNCHANGED <<page, list, info_vec, js_script, anchors>>
    /\ UNCHANGED <<play_vars, io_vars>>

\* KeyCode::PageDown
PageDown ==
    /\ pc = "loop"
    /\ \E height \in TerminalHeights :
        /\ last' = Snapshot("pagedown")
        /\ LET new_position == list_state + (height \div 2)
               c == IF Len(info_vec) <= new_position + 1
                    THEN continue(page, list, info_vec)
                    ELSE Unloaded
           IN MovesTo(c, new_position + 1)

\* KeyCode::PageUp: the step `height / 2 - 1` is computed on u16
PageUp ==
    /\ pc = "loop"
    /\ \E height \in TerminalHeights :
        /\ last' = Snapshot("pageup")
        /\ \E overflow_checks \in BOOLEAN :
              IF height \div 2 = 0 /\ overflow_checks
              THEN Panics /\ UNCHANGED list_state
              ELSE /\ list_state' =
                         SaturatingSub(list_state,
                                       IF height \div 2 = 0 THEN 65535
                                       ELSE height \div 2 - 1)
                   /\ Draws(list_state', info_vec)
    /\ transfers' = <<>>
    /\ spawned' = <<>>
    /\ UNCHANGED <<page, list, info_vec, js_script, anchors>>
    /\ UNCHANGED <<play_vars, io_vars>>

\* `(list, info_vec) = page.request(&mut easy)` with the cursor put on
\* `selected`, then the next draw
Reloads(p, selected) ==
    LET r == request(p)
    IN /\ page' = r.page
       /\ list' = r.list
       /\ info_vec' = r.info_vec
       /\ transfers' = r.transfers
       /\ list_state' = selected
       /\ Draws(selected, r.info_vec)

\* Redraws, were the cursor put back on the first item
Redraws_FromTheTop ==
    /\ Draws(0, info_vec)
    /\ list_state' = 0
    /\ transfers' = <<>>
    /\ spawned' = <<>>
    /\ UNCHANGED <<page, list, info_vec, js_script, anchors>>

\* The handler changes nothing and the frame is drawn again
Redraws ==
    /\ Draws(list_state, info_vec)
    /\ transfers' = <<>>
    /\ spawned' = <<>>
    /\ UNCHANGED <<page, list, info_vec, list_state, js_script, anchors>>

\* NewPage, were it to store index 0 with the page it leaves
NewPage_ForgetsIndex(node, current, selected) ==
    CASE node.kind = "Header" -> PageCategory(Some(node.a), <<current, 0>>)
      [] node.kind = "Game" -> PageGame(node.a, None, node.b, <<current, 0>>)
      [] node.kind = "Search" -> PageSearch(node.a, node.b, None, <<current, 0>>)
      [] node.kind = "Transcript" -> PageTranscript(node.a, <<current, 0>>)
      [] node.kind = "CommentSection" ->
            PageCommentSection(node.a, None, <<current, 0>>)
      [] node.kind = "Comment" -> PageComment(node.a, None, <<current, 0>>)

\* The page built by the arm of the node that was activated (main.rs:542-746)
NewPage(node, current, selected) ==
    CASE node.kind = "Header" -> PageCategory(Some(node.a), <<current, selected>>)
      [] node.kind = "Game" -> PageGame(node.a, None, node.b, <<current, selected>>)
      [] node.kind = "Search" -> PageSearch(node.a, node.b, None, <<current, selected>>)
      [] node.kind = "Transcript" -> PageTranscript(node.a, <<current, selected>>)
      [] node.kind = "CommentSection" ->
            PageCommentSection(node.a, None, <<current, selected>>)
      [] node.kind = "Comment" -> PageComment(node.a, None, <<current, selected>>)

PushingNodes == {"Header", "Game", "Search", "Transcript", "CommentSection", "Comment"}

\* The markers main looks for in the watch page and in the player script it
\* names (main.rs:603-663), in the order it looks for them
AnchorNames == <<"path_marker", "path_quote", "n_marker", "sig_marker", "n_end", "sig_end">>
AllFound == [a \in {AnchorNames[i] : i \in 1..Len(AnchorNames)} |-> TRUE]
NoneSought == [a \in DOMAIN AllFound |-> FALSE]
\* What the site serves: every marker, or all but one
AnchorCases == {AllFound} \cup {[AllFound EXCEPT ![a] = FALSE] : a \in DOMAIN AllFound}

\* The path of the player script is cut out of the watch page
PathFound(found) == found.path_marker /\ found.path_quote

\* Every `.expect(..)` of the script acquisition is met
AnchorsFound_SkipsSigEnd(found) ==
    /\ PathFound(found)
    /\ found.n_marker /\ found.sig_marker /\ found.n_end

AnchorsFound(found) ==
    /\ PathFound(found)
    /\ found.n_marker /\ found.sig_marker /\ found.n_end /\ found.sig_end

\* parsed_response.play(script), then back in the loop
Plays(response) ==
    LET p == play(response, video_selector, audio_selector)
    IN IF p.outcome = "spawned"
       THEN /\ spawned' = <<p.program>>
            /\ Draws(list_state, info_vec)
       ELSE /\ spawned' = <<>>
            /\ Panics

\* Node::Video arm with the script cached (main.rs:558-593)
CachedScriptBranch(video_id) ==
    LET response == PlayerResponse(video_id)
    IN /\ transfers' = <<HttpRequest("POST", "/youtubei/v1/player", None, None,
                                     None, Some(video_id), None)>>
       /\ UNCHANGED <<js_script, anchors>>
       /\ CASE response.result = "ok" -> Plays(response)
            [] response.result = "missing streamingData" ->
                 /\ pc' = "ack"
                 /\ raw_mode' = FALSE
                 /\ alternate_screen' = FALSE
                 /\ spawned' = <<>>
            [] OTHER -> Panics /\ spawned' = <<>>

\* FirstVideoBranch, were the engine dropped at the end of the arm
FirstVideoBranch_DropsScript(video_id) ==
    LET response == PlayerResponse(video_id)
    IN \E found \in AnchorCases :
          /\ anchors' = found
          /\ transfers' = IF PathFound(found)
                          THEN <<Get("https://www.youtube.com/watch/"),
                                 Get("https://www.youtube.com/s/player/base.js")>>
                          ELSE <<Get("https://www.youtube.com/watch/")>>
          /\ UNCHANGED js_script
          /\ IF ~AnchorsFound(found)
             THEN Panics /\ spawned' = <<>>
             ELSE IF response.result = "ok"
             THEN Plays(response)
             ELSE spawned' = <<>> /\ Draws(list_state, info_vec)

\* Node::Video arm without a script: the watch page, the player script, the
\* engine, then extract_json on the watch page (main.rs:594-679)
FirstVideoBranch(video_id) ==
    LET response == PlayerResponse(video_id)
    IN \E found \in AnchorCases :
          /\ anchors' = found
          /\ transfers' = IF PathFound(found)
                          THEN <<Get("https://www.youtube.com/watch/"),
                                 Get("https://www.youtube.com/s/player/base.js")>>
                          ELSE <<Get("https://www.youtube.com/watch/")>>
          /\ IF ~AnchorsFound(found)
             THEN Panics /\ spawned' = <<>> /\ UNCHANGED js_script
             ELSE IF response.result = "ok"
             THEN /\ Plays(response)
                  /\ js_script' = (pc' = "loop")
             ELSE /\ spawned' = <<>>
                  /\ Draws(list_state, info_vec)
                  /\ js_script' = TRUE

\* Node::Video arm (main.rs:555-683)
ActivateVideo(video_id) ==
    /\ UNCHANGED <<page, list, info_vec, list_state>>
    /\ IF js_script THEN CachedScriptBranch(video_id) ELSE FirstVideoBranch(video_id)

\* KeyCode::Right
Enter ==
    /\ pc = "loop"
    /\ last' = Snapshot("enter")
    /\ LET node == SelectedNode
       IN \/ /\ node.kind \in PushingNodes
             /\ Depth(page) < MaxDepth
             /\ Reloads(NewPage(node, page, list_state), 0)
             /\ spawned' = <<>>
             /\ UNCHANGED <<js_script, anchors>>
          \/ /\ node.kind = "Video"
             /\ ActivateVideo(node.a)
          \/ /\ node.kind \in {"Channel", "Playlist"}
             /\ Panics
             /\ transfers' = <<>>
             /\ spawned' = <<>>
             /\ UNCHANGED <<page, list, info_vec, list_state, js_script, anchors>>
          \/ /\ node.kind = "None"
             /\ Redraws
    /\ UNCHANGED <<play_vars, io_vars>>

\* The enter key that ends the notice of an unavailable video (main.rs:586-589)
Acknowledge ==
    /\ pc = "ack"
    /\ raw_mode' = TRUE
    /\ alternate_screen' = TRUE
    /\ pc' = IF list_state < Len(info_vec) THEN "loop" ELSE "panic"
    /\ UNCHANGED <<page, list, info_vec, list_state, js_script, anchors, transfers, spawned,
                   last>>
    /\ UNCHANGED <<play_vars, io_vars>>

\* GoBack, were it to fetch the current page again without `page = *previous.0`
GoBack_KeepsPage ==
    /\ pc = "loop"
    /\ last' = Snapshot("back")
    /\ IF page.kind = "Home"
       THEN /\ list_state' = 0
            /\ Draws(0, info_vec)
            /\ transfers' = <<>>
            /\ UNCHANGED <<page, list, info_vec>>
       ELSE Reloads(page, Min(page.previous[2], SaturatingSub(Len(info_vec), 1)))
    /\ spawned' = <<>>
    /\ UNCHANGED <<js_script, anchors>>
    /\ UNCHANGED <<play_vars, io_vars>>

\* KeyCode::Left
GoBack ==
    /\ pc = "loop"
    /\ last' = Snapshot("back")
    /\ IF page.kind = "Home"
       THEN /\ list_state' = 0
            /\ Draws(0, info_vec)
            /\ transfers' = <<>>
            /\ UNCHANGED <<page, list, info_vec>>
       ELSE LET previous == page.previous
            IN \E overflow_checks \in BOOLEAN :
                  IF Len(info_vec) = 0 /\ overflow_checks
                  THEN /\ Panics
                       /\ page' = previous[1]
                       /\ transfers' = <<>>
                       /\ UNCHANGED <<list, info_vec, list_state>>
                  ELSE Reloads(previous[1],
                               Min(previous[2], WrappingSub(Len(info_vec), 1)))
    /\ spawned' = <<>>
    /\ UNCHANGED <<js_script, anchors>>
    /\ UNCHANGED <<play_vars, io_vars>>

\* GoHome, were the home page put on top of the page that was current
GoHome_OnTop ==
    /\ pc = "loop"
    /\ last' = Snapshot("home")
    /\ Reloads([kind |-> "Home", continuation |-> None, previous |-> <<page, list_state>>], 0)
    /\ spawned' = <<>>
    /\ UNCHANGED <<js_script, anchors>>
    /\ UNCHANGED <<play_vars, io_vars>>

\* GoHome, were the cursor left where it was
GoHome_KeepsCursor ==
    /\ pc = "loop"
    /\ last' = Snapshot("home")
    /\ Reloads(PageHome(None), list_state)
    /\ spawned' = <<>>
    /\ UNCHANGED <<js_script, anchors>>
    /\ UNCHANGED <<play_vars, io_vars>>

\* KeyCode::Char('h')
GoHome ==
    /\ pc = "loop"
    /\ last' = Snapshot("home")
    /\ Reloads(PageHome(None), 0)
    /\ spawned' = <<>>
    /\ UNCHANGED <<js_script, anchors>>
    /\ UNCHANGED <<play_vars, io_vars>>

\* KeyCode::Char('s'): the query typed in the input box, then the push
Search ==
    /\ pc = "loop"
    /\ Depth(page) + 1 < MaxDepth
    /\ \E query \in Queries :
        /\ last' = Snapshot("search")
        /\ Reloads(PageSearch(query, None, None, <<page, list_state>>), 0)
    /\ spawned' = <<>>
    /\ UNCHANGED <<js_script, anchors>>
    /\ UNCHANGED <<play_vars, io_vars>>

\* Refresh, were the cursor left where it was
Refresh_KeepsCursor ==
    /\ pc = "loop"
    /\ last' = Snapshot("refresh")
    /\ Reloads(page, list_state)
    /\ spawned' = <<>>
    /\ UNCHANGED <<js_script, anchors>>
    /\ UNCHANGED <<play_vars, io_vars>>

\* KeyCode::Char('r')
Refresh ==
    /\ pc = "loop"
    /\ last' = Snapshot("refresh")
    /\ LET r == request(page)
       IN /\ page' = r.page
          /\ list' = r.list
          /\ info_vec' = r.info_vec
          /\ transfers' = r.transfers
          /\ \E overflow_checks \in BOOLEAN :
                IF Len(r.info_vec) = 0 /\ overflow_checks
                THEN Panics /\ UNCHANGED list_state
                ELSE /\ list_state' = Min(list_state, WrappingSub(Len(r.info_vec), 1))
                     /\ Draws(list_state', r.info_vec)
    /\ spawned' = <<>>
    /\ UNCHANGED <<js_script, anchors>>
    /\ UNCHANGED <<play_vars, io_vars>>

\* ShowNext, were the page pushed whatever the selected node
ShowNext_OnAnyNode ==
    /\ pc = "loop"
    /\ last' = Snapshot("next")
    /\ Depth(page) + 1 < MaxDepth
    /\ Reloads(PageNext(SelectedNode.a, None, <<page, list_state>>), 0)
    /\ spawned' = <<>>
    /\ UNCHANGED <<js_script, anchors>>
    /\ UNCHANGED <<play_vars, io_vars>>

\* KeyCode::Char('n')
ShowNext ==
    /\ pc = "loop"
    /\ last' = Snapshot("next")
    /\ IF SelectedNode.kind = "Video"
       THEN /\ Depth(page) + 1 < MaxDepth
            /\ Reloads(PageNext(SelectedNode.a, None, <<page, list_state>>), 0)
            /\ spawned' = <<>>
            /\ UNCHANGED <<js_script, anchors>>
       ELSE Redraws
    /\ UNCHANGED <<play_vars, io_vars>>

\* Event::Resize: the frame is drawn again
Resize ==
    /\ pc = "loop"
    /\ last' = Snapshot("resize")
    /\ Redraws
    /\ UNCHANGED <<play_vars, io_vars>>

\* main up to the first read of an event: the home page has been requested
InitLoop ==
    /\ LET r == request(PageHome(None))
       IN /\ page = r.page
          /\ list = r.list
          /\ info_vec = r.info_vec
          /\ transfers = r.transfers
    /\ last = "start"
    /\ list_state = 0
    /\ js_script = FALSE
    /\ anchors = NoneSought
    /\ pc = "loop"
    /\ raw_mode = TRUE
    /\ alternate_screen = TRUE
    /\ spawned = <<>>

Init ==
    /\ InitLoop
    /\ adaptiveFormats = <<>>
    /\ video_selector = VIDEO_SELECTOR
    /\ audio_selector = AUDIO_SELECTOR
    /\ ideal_video = 0
    /\ ideal_audio = 0
    /\ play_pc = "idle"
    /\ job = NoJob
    /\ answer = NoAnswer
    /\ hlsManifestUrl = None
    /\ in_flight = <<>>
    /\ perform = NoTransfer

Next ==
    \/ Quit
    \/ MoveDown
    \/ MoveUp
    \/ PageDown
    \/ PageUp
    \/ Enter
    \/ Acknowledge
    \/ GoBack
    \/ GoHome
    \/ Search
    \/ Refresh
    \/ ShowNext
    \/ Resize

Spec == Init /\ [][Next]_vars

(***************************************************************************)
(* utils.rs: request_get and request_post, one transfer at a time. A       *)
(* handler hands its request to transfer.perform() and goes on when it     *)
(* returns; perform may fail after any part of the body was delivered      *)
(***************************************************************************)
\* transfer.perform(): its result, and how much of the body reached the
\* write function: all of it, all but the end, or nothing
PerformResults ==
    {[result |-> "Ok", received |-> "all"],
     [result |-> "Err", received |-> "all"],
     [result |-> "Err", received |-> "most"],
     [result |-> "Err", received |-> "none"]}

\* request_get, request_post: the Vec they return holds what was delivered,
\* `let _ = transfer.perform()` drops the result (utils.rs:10-56)
request_get(performed) == performed.received
request_post(performed) == performed.received

\* from_slice on the body of a POST, and extract_json on the home page, where
\* the JSON sought ends before the page does (main.rs:89-97, utils.rs:61-72)
from_slice(body) == body = "all"
extract_json(body) == body \in {"all", "most"}
Decodes(sent, performed) ==
    IF sent.method = "GET" THEN extract_json(request_get(performed))
    ELSE from_slice(request_post(performed))

\* main.rs:486: an event is read where the loop starts over, and nowhere else
Reads_WhileTransferring(event) ==
    /\ pc \in {"loop", "request", "continue", "player"}
    /\ last' = event

Reads(event) ==
    /\ pc = "loop"
    /\ last' = event

\* The pages on which the transfers are followed
TransferPages ==
    LET home == <<PageHome(Some("h1")), 0>>
    IN {PageHome(None),
        PageCategory(Some("cat"), home),
        PageGame("gA", None, None, home),
        PageSearch("qA", None, None, home),
        PageNext("vOK", None, home),
        PageNext("vAge", None, home),
        PageTranscript("tr", home),
        PageCommentSection("cs", None, home),
        PageComment("cm", None, home)}

InitTransfer ==
    /\ \E p \in TransferPages :
          LET r == request(p)
          IN /\ page = r.page
             /\ list = r.list
             /\ info_vec = r.info_vec
             /\ transfers = r.transfers
    /\ last = "start"
    /\ list_state = 0
    /\ js_script = TRUE
    /\ anchors = AllFound
    /\ pc = "loop"
    /\ raw_mode = TRUE
    /\ alternate_screen = TRUE
    /\ spawned = <<>>
    /\ adaptiveFormats = <<>>
    /\ video_selector = VIDEO_SELECTOR
    /\ audio_selector = AUDIO_SELECTOR
    /\ ideal_video = 0
    /\ ideal_audio = 0
    /\ play_pc = "idle"
    /\ job = NoJob
    /\ answer = NoAnswer
    /\ hlsManifestUrl = None
    /\ in_flight = <<>>
    /\ perform = NoTransfer

\* A handler hands a request to transfer.perform()
Begins(position, sent) ==
    /\ pc' = position
    /\ in_flight' = Append(in_flight, sent)
    /\ transfers' = <<>>
    /\ spawned' = <<>>
    /\ UNCHANGED <<page, list, info_vec, list_state, js_script, anchors, raw_mode,
                   alternate_screen, perform>>
    /\ UNCHANGED play_vars

\* transfer.perform() returns
Returns(performed) ==
    /\ perform' = performed
    /\ in_flight' = Tail(in_flight)
    /\ transfers' = Append(transfers, Head(in_flight))
    /\ UNCHANGED <<js_script, anchors, last>>
    /\ UNCHANGED play_vars

\* 'r' (main.rs:867-877), up to the transfer of Page::request
BeginRefresh ==
    /\ Reads("refresh")
    /\ Begins("request", request(page).transfers[1])

\* Page::request from the transfer on, and the rest of the handler
EndRefresh ==
    /\ pc = "request"
    /\ \E performed \in PerformResults :
          /\ Returns(performed)
          /\ IF Decodes(Head(in_flight), performed)
             THEN LET r == request(page)
                  IN /\ page' = r.page
                     /\ list' = r.list
                     /\ info_vec' = r.info_vec
                     /\ list_state' = Min(list_state, WrappingSub(Len(r.info_vec), 1))
                     /\ Draws(list_state', r.info_vec)
             ELSE /\ Panics
                  /\ UNCHANGED <<page, list, info_vec, list_state>>
    /\ spawned' = <<>>

\* Page::continue sends a request from the last item of the list
ContinueSends ==
    /\ list_state + 1 = Len(info_vec)
    /\ page.kind \in ContinueArms
    /\ IsSome(page.continuation)

\* Down on the last item (main.rs:491-505), up to the transfer of
\* Page::continue
BeginContinue ==
    /\ Reads("down")
    /\ ContinueSends
    /\ Begins("continue", continue(page, list, info_vec).transfers[1])

\* Page::continue from the transfer on, and the rest of the handler
EndContinue ==
    /\ pc = "continue"
    /\ \E performed \in PerformResults :
          /\ Returns(performed)
          /\ IF Decodes(Head(in_flight), performed)
             THEN LET c == continue(page, list, info_vec)
                  IN /\ page' = c.page
                     /\ list' = c.list
                     /\ info_vec' = c.info_vec
                     /\ list_state' = WrappingSub(Min(Len(c.info_vec), list_state + 2), 1)
                     /\ Draws(list_state', c.info_vec)
             ELSE /\ Panics
                  /\ UNCHANGED <<page, list, info_vec, list_state>>
    /\ spawned' = <<>>

\* Down anywhere else: no transfer
StepDown ==
    /\ ~ContinueSends
    /\ MoveDown

\* Enter on a video with the script cached (main.rs:555-566), up to the
\* transfer of the player request
BeginPlayer ==
    /\ Reads("enter")
    /\ js_script
    /\ list_state < Len(info_vec)
    /\ SelectedNode.kind = "Video"
    /\ Begins("player", HttpRequest("POST", "/youtubei/v1/player", None, None,
                                    None, Some(SelectedNode.a), None))

\* The match on the decoded player response (main.rs:560-592); play spawns
\* the player and waits for it
EndPlayer ==
    /\ pc = "player"
    /\ \E performed \in PerformResults :
          /\ Returns(performed)
          /\ LET response == PlayerResponse(SelectedNode.a)
             IN CASE ~Decodes(Head(in_flight), performed) ->
                       Panics /\ spawned' = <<>>
                  [] Decodes(Head(in_flight), performed) /\ response.result = "ok" ->
                       \E p \in {play(response, video_selector, audio_selector)} :
                          IF p.outcome = "spawned"
                          THEN /\ spawned' = <<p.program>>
                               /\ pc' = "wait"
                               /\ raw_mode' = FALSE
                               /\ alternate_screen' = FALSE
                          ELSE Panics /\ spawned' = <<>>
                  [] Decodes(Head(in_flight), performed)
                       /\ response.result = "missing streamingData" ->
                       /\ pc' = "ack"
                       /\ raw_mode' = FALSE
                       /\ alternate_screen' = FALSE
                       /\ spawned' = <<>>
                  [] OTHER -> Panics /\ spawned' = <<>>
    /\ UNCHANGED <<page, list, info_vec, list_state>>

\* child.wait() returns (video.rs:470-473)
PlayerExits ==
    /\ pc = "wait"
    /\ Draws(list_state, info_vec)
    /\ UNCHANGED <<page, list, info_vec, list_state, js_script, anchors, transfers,
                   spawned, last>>
    /\ UNCHANGED <<play_vars, io_vars>>

NextTransfer ==
    \/ BeginRefresh
    \/ EndRefresh
    \/ BeginContinue
    \/ EndContinue
    \/ StepDown
    \/ MoveUp
    \/ BeginPlayer
    \/ EndPlayer
    \/ PlayerExits
    \/ Acknowledge

SpecTransfer == InitTransfer /\ [][NextTransfer]_vars

(***************************************************************************)
(* VideoResponse::play on its own: the adaptive formats of a player        *)
(* response and the two selector lists are drawn from bounded sets         *)
(***************************************************************************)
FormatDomain ==
    { VideoFormat("Video", 100, 480, Mp4Mime("v")),
      VideoFormat("Video", 200, 480, WebmMime("v")),
      VideoFormat("VideoCipher", 100, 720, Mp4Mime("v")),
      VideoFormat("Video", 200, 960, WebmMime("v")),
      VideoFormat("VideoCipher", 200, 720, WebmMime("v")),
      AudioFormat("Audio", 100, None, Mp4Mime("a")),
      AudioFormat("Audio", 200, Some("English"), WebmMime("a")),
      AudioFormat("AudioCipher", 100, Some("English"), Mp4Mime("a")),
      AudioFormat("Audio", 200, Some("French"), WebmMime("a")),
      AudioFormat("AudioCipher", 200, None, Mp4Mime("a")) }

SelectorDomain ==
    { <<VIDEO_SELECTOR, AUDIO_SELECTOR>>,
      <<<<Quality(ClosestTo(480)), Bitrate(Lowest)>>, <<Bitrate(Lowest)>>>>,
      <<<<>>, <<>>>>,
      <<<<Format("Webm"), Bitrate(Highest)>>, <<Format("Mp4"), Language("French")>>>>,
      <<<<Bitrate(ClosestTo(150)), Quality(Highest), Format("Mp4")>>,
        <<Bitrate(Highest), Format("Webm")>>>>,
      <<<<Quality(Lowest)>>, <<Language("English"), Bitrate(ClosestTo(150))>>>> }

InitPlay ==
    /\ InitLoop
    /\ \E n \in 0..MaxFormats : adaptiveFormats \in [1..n -> FormatDomain]
    /\ \E selectors \in SelectorDomain :
          /\ video_selector = selectors[1]
          /\ audio_selector = selectors[2]
    /\ ideal_video = 0
    /\ ideal_audio = 0
    /\ play_pc = "start"
    /\ job = NoJob
    /\ answer = NoAnswer
    /\ hlsManifestUrl \in IF Len(adaptiveFormats) <= MaxLiveFormats
                          THEN {None, Some(<<"h", "l", "s">>)}
                          ELSE {None}
    /\ in_flight = <<>>
    /\ perform = NoTransfer

\* VideoResponse::play on the response (video.rs:232-474), and once more on
\* an equal response when the video is activated again
Play_KeepsAnyVideo ==
    /\ play_pc \in {"start", "spawned"}
    /\ Len(spawned) < MaxRuns
    /\ \E p \in {play(StreamingData(hlsManifestUrl, adaptiveFormats),
                      video_selector, audio_selector)} :
          /\ ideal_video' \in {p.ideal_video}
                  \cup {i \in 1..Len(adaptiveFormats) :
                           p.ideal_video # 0 /\ IsVideo(adaptiveFormats[i])}
          /\ ideal_audio' = p.ideal_audio
          /\ play_pc' = p.outcome
          /\ answer' = [outcome |-> p.outcome, program |-> p.program,
                        args |-> p.args, called |-> p.called]
          /\ spawned' = IF p.outcome = "spawned" THEN Append(spawned, p.program)
                        ELSE spawned
    /\ UNCHANGED <<adaptiveFormats, video_selector, audio_selector, job,
                   hlsManifestUrl>>
    /\ UNCHANGED <<page, list, info_vec, list_state, js_script, anchors, pc,
                   raw_mode, alternate_screen, transfers, last>>
    /\ UNCHANGED io_vars

Play ==
    /\ play_pc \in {"start", "spawned"}
    /\ Len(spawned) < MaxRuns
    /\ \E p \in {play(StreamingData(hlsManifestUrl, adaptiveFormats),
                      video_selector, audio_selector)} :
          /\ ideal_video' = p.ideal_video
          /\ ideal_audio' = p.ideal_audio
          /\ play_pc' = p.outcome
          /\ answer' = [outcome |-> p.outcome, program |-> p.program,
                        args |-> p.args, called |-> p.called]
          /\ spawned' = IF p.outcome = "spawned" THEN Append(spawned, p.program)
                        ELSE spawned
    /\ UNCHANGED <<adaptiveFormats, video_selector, audio_selector, job,
                   hlsManifestUrl>>
    /\ UNCHANGED <<page, list, info_vec, list_state, js_script, anchors, pc,
                   raw_mode, alternate_screen, transfers, last>>
    /\ UNCHANGED io_vars

NextPlay == Play

SpecPlay == InitPlay /\ [][NextPlay]_vars

(***************************************************************************)
(* Format selection as a composite key                                     *)
(***************************************************************************)
\* play went through the StreamingData::Video arm
Selected == play_pc # "start" /\ hlsManifestUrl = None
VideoPositions == {i \in 1..Len(adaptiveFormats) : IsVideo(adaptiveFormats[i])}
AudioPositions == {i \in 1..Len(adaptiveFormats) : IsAudio(adaptiveFormats[i])}

Distance(t, v) == IF v >= t THEN v - t ELSE t - v

\* The value a Bitrate or Quality criterion looks at
CriterionValue(criterion, f) == IF criterion.crit = "Bitrate" THEN f.bitrate ELSE f.height

\* Criterion strictly prefers format a to format b
Prefers(criterion, a, b) ==
    CASE criterion.crit \in {"Bitrate", "Quality"} ->
            LET va == CriterionValue(criterion, a)
                vb == CriterionValue(criterion, b)
            IN (CASE criterion.selector.how = "Highest" -> va > vb
                  [] criterion.selector.how = "Lowest" -> va < vb
                  [] criterion.selector.how = "ClosestTo" ->
                        Distance(criterion.selector.target, va)
                            < Distance(criterion.selector.target, vb))
      [] criterion.crit = "Format" ->
            /\ Contains(a.mimeType, MediaFormatToString(criterion.format))
            /\ ~Contains(b.mimeType, MediaFormatToString(criterion.format))
      [] criterion.crit = "Language" ->
            /\ a.audioTrack = Some(criterion.language)
            /\ b.audioTrack # Some(criterion.language)

EqualUnder(criterion, a, b) == ~Prefers(criterion, a, b) /\ ~Prefers(criterion, b, a)

\* a comes before b under the policy read as a major-to-minor key
Beats(policy, a, b) ==
    \E k \in 1..Len(policy) :
        /\ Prefers(policy[k], a, b)
        /\ \A j \in 1..(k - 1) : EqualUnder(policy[j], a, b)

Ties(policy, a, b) == \A k \in 1..Len(policy) : EqualUnder(policy[k], a, b)

\* Position i holds the best format of the partition, the first of its equals
BestOf(policy, positions, i) ==
    /\ i \in positions
    /\ \A j \in positions \ {i} :
          \/ Beats(policy, adaptiveFormats[i], adaptiveFormats[j])
          \/ Ties(policy, adaptiveFormats[i], adaptiveFormats[j]) /\ i < j

ExampleA == VideoFormat("Video", 100, 480, Mp4Mime("v"))
ExampleB == VideoFormat("Video", 200, 480, WebmMime("v"))
ExamplePolicy == <<Quality(ClosestTo(480)), Bitrate(Lowest)>>

\* C1: once play has run its selection, the selected video format is the
\* best of the video-kind formats under the video selector list read as a
\* major-to-minor key, the first in input order among equals (none selected
\* only when there is no video-kind format); for the formats A (100, 480)
\* and B (200, 480) under [Quality(ClosestTo(480)), Bitrate(Lowest)] it is A
\* in both arrival orders.
C1_VideoSelection ==
    Selected =>
        /\ IF VideoPositions = {} THEN ideal_video = 0
           ELSE BestOf(video_selector, VideoPositions, ideal_video)
        /\ (/\ video_selector = ExamplePolicy
            /\ adaptiveFormats \in {<<ExampleA, ExampleB>>, <<ExampleB, ExampleA>>})
           => adaptiveFormats[ideal_video] = ExampleA

\* B arrived first and A was selected on the bitrate criterion
C1_Witness ==
    /\ Selected
    /\ video_selector = ExamplePolicy
    /\ adaptiveFormats = <<ExampleB, ExampleA>>
    /\ ideal_video = 2

\* C2: once play has run its selection, the selected audio format is the
\* best of the audio-kind formats under the audio selector list read as a
\* major-to-minor key, the first in input order among equals.
C2_AudioSelection ==
    Selected =>
        IF AudioPositions = {} THEN ideal_audio = 0
        ELSE BestOf(audio_selector, AudioPositions, ideal_audio)

(***************************************************************************)
(* Navigation: steps of the event loop                                     *)
(***************************************************************************)
\* The step is the handling of `event`, read while waiting in the loop
Handles(event) == pc = "loop" /\ last' = event

\* Number of previous links under a page
RECURSIVE Links(_)
Links(p) == IF "previous" \in DOMAIN p THEN 1 + Links(p.previous[1]) ELSE 0

\* The continuation a page stores, None for the variant without the field
Stored(p) == IF "continuation" \in DOMAIN p THEN p.continuation ELSE None

\* The page as the transition that made it current built it
AsBuilt(p) ==
    IF p.kind \in {"Category", "Transcript"} THEN p ELSE [p EXCEPT !.continuation = None]

\* The items a response decodes to, on their own
Decoded(req) ==
    IF req.url = "/youtubei/v1/next" /\ ~IsSome(req.continuation)
    THEN NextResponse_into_widgets(Respond(req))
    ELSE into_widgets(Respond(req), <<>>, <<>>)

ListUrls == {"https://www.youtube.com", "/youtubei/v1/browse", "/youtubei/v1/search",
             "/youtubei/v1/next", "/youtubei/v1/get_transcript"}

\* C3: a back on a non-Home page makes the owned previous page current,
\* fetches it afresh and leaves the cursor on the stored index clamped to
\* the last item of the restored page as re-fetched.
C3_BackClampsToRestoredPage ==
    [][(Handles("back") /\ page.kind # "Home") =>
          LET fresh == request(page.previous[1])
          IN /\ page' = fresh.page
             /\ list' = fresh.list
             /\ info_vec' = fresh.info_vec
             /\ list_state' = Min(page.previous[2], Len(fresh.info_vec) - 1)]_vars

\* C4: a single step down on the last item of a page that stores Some(t),
\* whatever its variant, sends exactly one request carrying t, appends the
\* decoded items after the unchanged existing ones and stores the token of
\* the response (None when it has none).
C4_ContinueLoadsEveryVariant ==
    [][(Handles("down") /\ list_state + 1 = Len(info_vec) /\ IsSome(Stored(page))) =>
          /\ Len(transfers') = 1
          /\ transfers'[1].continuation = Stored(page)
          /\ LET more == Decoded(transfers'[1])
             IN /\ list' = list \o more.list
                /\ info_vec' = info_vec \o more.info_vec
                /\ page' = [page EXCEPT !.continuation = more.continuation]]_vars

\* C4, for the variants other than Category
C4_ContinueLoadsButCategory ==
    [][(Handles("down") /\ list_state + 1 = Len(info_vec) /\ IsSome(Stored(page))
        /\ page.kind # "Category") =>
          /\ Len(transfers') = 1
          /\ transfers'[1].continuation = Stored(page)
          /\ LET more == Decoded(transfers'[1])
             IN /\ list' = list \o more.list
                /\ info_vec' = info_vec \o more.info_vec
                /\ page' = [page EXCEPT !.continuation = more.continuation]]_vars

\* C5: a move down on a page that stores no continuation (or is a
\* Transcript) sends nothing and leaves the titles, the details and the page
\* with its back-stack as they were.
C5_ContinueOnNoneIsNoOp ==
    [][((Handles("down") \/ Handles("pagedown")) /\ ~IsSome(Stored(page))) =>
          /\ transfers' = <<>>
          /\ list' = list
          /\ info_vec' = info_vec
          /\ page' = page]_vars

\* A move down was handled with the cursor on the only item of a Transcript page
C5_Witness ==
    /\ pc = "loop"
    /\ last = "down"
    /\ page.kind = "Transcript"
    /\ Len(info_vec) = 1
    /\ transfers = <<>>

\* C6: in every state of the loop a request on the current page gives the
\* items and the stored continuation that a request on the page as it was
\* built gives, and a second request gives them again; the identifying
\* fields are those the page was built with.
C6_RequestIdempotent ==
    pc = "loop" =>
        LET once == request(AsBuilt(page))
            now == request(page)
        IN /\ now = once
           /\ request(now.page) = once
           /\ AsBuilt(now.page) = AsBuilt(page)

\* The page has been continued: it holds more than its initial fetch and
\* stores another token
C6_Witness ==
    /\ pc = "loop"
    /\ Len(info_vec) > Len(request(page).info_vec)
    /\ Stored(page) # request(page).page.continuation

\* C7: activating a Header, Game, Search, Transcript, CommentSection or
\* Comment node, or submitting a search, makes the matching page current on
\* top of (the page that was current, the index that was selected), one
\* level deeper, with the cursor on 0 and the items of its fresh fetch; a
\* Header gives a Category storing Some(token), any other page is built
\* with no continuation.
C7_PushTransitions ==
    [][((Handles("enter") /\ SelectedNode.kind \in PushingNodes) \/ Handles("search")) =>
          LET node == SelectedNode
              fresh == request(AsBuilt(page'))
          IN /\ page'.previous = <<page, list_state>>
             /\ Links(page') = Links(page) + 1
             /\ list_state' = 0
             /\ list' = fresh.list
             /\ info_vec' = fresh.info_vec
             /\ page' = fresh.page
             /\ IF last' = "search"
                THEN page'.kind = "Search" /\ page'.query \in Queries /\ page'.params = None
                ELSE CASE node.kind = "Header" ->
                            page'.kind = "Category" /\ page'.continuation = Some(node.a)
                       [] node.kind = "Game" ->
                            page'.kind = "Game" /\ page'.browse_id = node.a
                            /\ page'.params = node.b
                       [] node.kind = "Search" ->
                            page'.kind = "Search" /\ page'.query = node.a
                            /\ page'.params = node.b
                       [] node.kind = "Transcript" ->
                            page'.kind = "Transcript" /\ page'.params = node.a
                       [] OTHER ->
                            page'.kind = node.kind /\ page'.first_continuation = node.a]_vars

\* A game was entered from the third item of the home page
C7_Witness ==
    /\ pc = "loop"
    /\ last = "enter"
    /\ page.kind = "Game"
    /\ page.previous[2] = 2
    /\ page.previous[1].kind = "Home"
    /\ list_state = 0

\* C8: activating a Video node or a None node (and acknowledging the notice
\* of an unavailable video) leaves the page, its back-stack and stored
\* continuation, the items and the selected index as they were and fetches
\* no list.
C8_VideoAndNoneKeepThePage ==
    [][((Handles("enter") /\ SelectedNode.kind \in {"Video", "None"}) \/ pc = "ack") =>
          /\ UNCHANGED <<page, list, info_vec, list_state>>
          /\ \A i \in 1..Len(transfers') : transfers'[i].url \notin ListUrls]_vars

\* A video was activated and played
C8_Witness ==
    /\ pc = "loop"
    /\ last = "enter"
    /\ spawned = <<"mpv">>
    /\ SelectedNode.kind = "Video"

\* C9: activating a Channel or Playlist node leaves the session running
\* with the page stack, the items and the selection as they were.
C9_ChannelPlaylistNoOp ==
    [][(Handles("enter") /\ SelectedNode.kind \in {"Channel", "Playlist"}) =>
          /\ pc' = "loop"
          /\ UNCHANGED <<page, list, info_vec, list_state>>]_vars

\* C10: a back on a non-Home page makes current the page one level down,
\* the very page the push had stored (but for its refreshed continuation);
\* a back at depth 0 stays at depth 0; and the page at depth 0 is a Home
\* page without a previous link.
C10_BackStackRoundTrip ==
    [][Handles("back") =>
          /\ Links(page') = (IF Links(page) = 0 THEN 0 ELSE Links(page) - 1)
          /\ Links(page) > 0 => AsBuilt(page') = AsBuilt(page.previous[1])
          /\ Links(page') = 0 => DOMAIN page' = {"kind", "continuation"} /\ page'.kind = "Home"]_vars

\* The last back popped the last link: a home page was fetched again
C10_Witness ==
    /\ pc = "loop"
    /\ last = "back"
    /\ page.kind = "Home"
    /\ Len(transfers) = 1

(***************************************************************************)
(* The back-stack                                                          *)
(***************************************************************************)
PageKinds == {"Home", "Category", "Game", "Search", "Next", "Transcript",
              "CommentSection", "Comment"}

\* The pages from p down its previous links, p first
RECURSIVE Chain(_)
Chain(p) == IF "previous" \in DOMAIN p THEN <<p>> \o Chain(p.previous[1]) ELSE <<p>>

\* C11: the chain of previous links of the current page ends at a Home page,
\* has no Home page above that root, and every non-Home page of it holds
\* exactly one predecessor with the index that was selected on it.
C11_StackRootedAtHome ==
    LET chain == Chain(page)
        n == Len(chain)
    IN /\ chain[n].kind = "Home"
       /\ \A i \in 1..n :
             /\ chain[i].kind \in PageKinds
             /\ i < n => /\ chain[i].kind # "Home"
                         /\ Len(chain[i].previous) = 2
                         /\ chain[i].previous[1] = chain[i + 1]
                         /\ chain[i].previous[2] \in Nat
             /\ i = n => "previous" \notin DOMAIN chain[i]

\* A Comment page on top of three previous links
C11_Witness ==
    /\ pc = "loop"
    /\ Len(Chain(page)) = 4
    /\ page.kind = "Comment"

(***************************************************************************)
(* Lazy loading                                                            *)
(***************************************************************************)
\* The step sends the request of Page::continue for the current page
FetchesContinuation ==
    /\ transfers' # <<>>
    /\ transfers' = <<PostContinuation(ContinueUrl(page), Stored(page))>>

\* C12: a continuation fetch is sent only by a step down made on the last
\* loaded item or by a page down whose target (half the height and one more
\* below the cursor) would pass the last loaded item, once per move; no
\* other event sends one.
C12_FetchOnlyPastTheEnd ==
    [][FetchesContinuation =>
          /\ pc = "loop"
          /\ Len(transfers') = 1
          /\ \/ last' = "down" /\ list_state + 1 = Len(info_vec)
             \/ /\ last' = "pagedown"
                /\ \E height \in TerminalHeights :
                      LET target == list_state + (height \div 2) + 1
                      IN target > Len(info_vec) - 1]_vars

\* A page down has loaded more items
C12_Witness ==
    /\ pc = "loop"
    /\ last = "pagedown"
    /\ Len(transfers) = 1
    /\ IsSome(transfers[1].continuation)

(***************************************************************************)
(* video.rs: the arguments of video_player, one format at a time           *)
(***************************************************************************)
NChallenge == <<"&", "n", "=">>

\* URLs P + "&n=" + T + "&" + R, P holding no "&n=" and T no '&'
Prefixes == {<<>>, <<"u">>, <<"u", "&", "n">>, <<"u", "&", "a", "=", "1">>}
Challenges == {<<>>, <<"A">>, <<"A", "B", "1", "2">>, <<"n", "=">>}
Suffixes == {<<>>, <<"f", "=", "1">>, <<"x", "&", "n", "=", "Q", "&", "y">>}
ChallengeJobs ==
    {[kind |-> "n", p |-> p, t |-> t, r |-> r, f |-> f,
      url |-> p \o NChallenge \o t \o <<"&">> \o r] :
        p \in Prefixes, t \in Challenges, r \in Suffixes, f \in NFunctions}

\* URLs P + "&n=" + T: the challenge is the last query parameter
LastJobs ==
    {[kind |-> "last", p |-> p, t |-> t, f |-> f, url |-> p \o NChallenge \o t] :
        p \in Prefixes, t \in Challenges, f \in NFunctions}

\* A selected video format and a selected audio format, both with a plain
\* url, each with a challenge of its own
PlainFormat(kind, tag, t, r) ==
    [kind |-> kind, url |-> tag \o NChallenge \o t \o <<"&">> \o r,
     signatureCipher |-> <<>>]
PairJobs ==
    {[kind |-> "pair", tv |-> tv, ta |-> ta, r |-> r,
      video |-> PlainFormat("Video", <<"v">>, tv, r),
      audio |-> PlainFormat("Audio", <<"a">>, ta, r)] :
        tv \in Challenges, ta \in Challenges, r \in Suffixes}

\* Responses to decode: a NextResponse with a description panel of 0 to 2
\* header items, and the answers of the backend to the request of each page
\* and to the continuation that follows it
HeaderItems == {<<>>, <<"description">>, <<"description", "description">>}
RelatedEntries ==
    {<<>>, <<Item("ok", NodeVideo("vOK")), Token("n1")>>}
DecodeJobs ==
    {[kind |-> "decode", decoder |-> "NextResponse",
      entries |-> <<Description(headers, "vOK"), Item("Transcript", NodeTranscript("tr"))>>
                  \o related] :
        headers \in HeaderItems, related \in RelatedEntries}
    \cup {[kind |-> "decode", decoder |-> decoder, page |-> p] :
             decoder \in {"request", "continue"}, p \in TransferPages}

\* Signature ciphers s=..&sp=..&url=..
SignatureAlphabet == <<"X", "Y", "Z", "W", "V">>
LongSignature(len) == [i \in 1..len |-> SignatureAlphabet[(i % 5) + 1]]
SignatureFields ==
    {<<"X", "Y", "Z">>, <<"X", "%", "3", "A", "Z", "W">>}
    \cup {LongSignature(len) : len \in 129..MaxSigLen}
UrlFields ==
    {<<"h">>,
     <<"h", "%", "3", "A", "%", "2", "F", "e">>,
     <<"h", "%", "2", "5", "3", "A", "e">>,
     <<"%", "2", "5", "2", "5">>,
     <<"%", "2", "5", "%", "3", "4", "%", "3", "1">>}
SigPrograms ==
    {<<>>, <<wa>>, <<RV(1)>>, <<RV(2), wa>>, <<p4(1), wa>>, <<wa, p4(1), RV(3)>>}
CipherJobs ==
    {[kind |-> "cipher", s |-> s, sp |-> <<"s", "i", "g">>, url |-> url,
      program |-> program,
      signature_cipher |-> <<"s", "=">> \o s \o <<"&", "s", "p", "=", "s", "i", "g">>
                           \o <<"&", "u", "r", "l", "=">> \o url] :
        s \in SignatureFields, url \in UrlFields, program \in SigPrograms}

InitResolve ==
    /\ InitLoop
    /\ adaptiveFormats = <<>>
    /\ video_selector = VIDEO_SELECTOR
    /\ audio_selector = AUDIO_SELECTOR
    /\ ideal_video = 0
    /\ ideal_audio = 0
    /\ play_pc = "idle"
    /\ job \in ChallengeJobs \cup LastJobs \cup PairJobs \cup CipherJobs \cup DecodeJobs
    /\ answer = NoAnswer
    /\ hlsManifestUrl = None
    /\ in_flight = <<>>
    /\ perform = NoTransfer

\* AdaptiveFormat::Video { url, .. } handed to video_player (video.rs:400-421)
Solve ==
    /\ job.kind \in {"n", "last"}
    /\ answer = NoAnswer
    /\ answer' = SolveChallenge(job.url, job.f)
    /\ UNCHANGED <<adaptiveFormats, video_selector, audio_selector, ideal_video,
                   ideal_audio, play_pc, job,
                   hlsManifestUrl>>
    /\ UNCHANGED <<nav_vars, io_vars>>

\* AdaptiveFormat::VideoCipher { signatureCipher, .. } handed to video_player
\* (video.rs:422-424)
Decipher ==
    /\ job.kind = "cipher"
    /\ answer = NoAnswer
    /\ \E lenient \in BOOLEAN :
          answer' = decipher_signature(job.program, job.signature_cipher, lenient)
    /\ UNCHANGED <<adaptiveFormats, video_selector, audio_selector, ideal_video,
                   ideal_audio, play_pc, job,
                   hlsManifestUrl>>
    /\ UNCHANGED <<nav_vars, io_vars>>

\* Both arguments of video_player for a pair of plain formats
\* (video.rs:398-444)
Resolved2(command) ==
    [outcome |-> IF command.program = "" THEN "panic" ELSE "ok",
     program |-> command.program, args |-> command.args, called |-> command.called]

SolvePair ==
    /\ job.kind = "pair"
    /\ answer = NoAnswer
    /\ answer' = Resolved2(PlayerArguments(<<job.video, job.audio>>, 1, 2))
    /\ UNCHANGED <<adaptiveFormats, video_selector, audio_selector, ideal_video,
                   ideal_audio, play_pc, job,
                   hlsManifestUrl>>
    /\ UNCHANGED <<nav_vars, io_vars>>

\* The two vectors a response is decoded to
Widgets(w) == [outcome |-> "ok", list |-> w.list, info_vec |-> w.info_vec]

\* Page::continue right after Page::request
Continued(r) == continue(r.page, r.list, r.info_vec)

\* into_widgets of the response of a job
Decode ==
    /\ job.kind = "decode"
    /\ answer = NoAnswer
    /\ answer' = CASE job.decoder = "NextResponse" ->
                         Widgets(NextResponse_into_widgets(job.entries))
                    [] job.decoder = "request" -> Widgets(request(job.page))
                    [] OTHER -> Widgets(Continued(request(job.page)))
    /\ UNCHANGED <<adaptiveFormats, video_selector, audio_selector, ideal_video,
                   ideal_audio, play_pc, job,
                   hlsManifestUrl>>
    /\ UNCHANGED <<nav_vars, io_vars>>

NextResolve == Solve \/ SolvePair \/ Decipher \/ Decode

SpecResolve == InitResolve /\ [][NextResolve]_vars

\* C13: for a video URL P + "&n=" + T + "&" + R the `n` function is called
\* with exactly T and the URL handed to the player is P + "&n=" + f(T) + "&"
\* + R, whatever the length of f(T).
C13_ChallengeSubstitution ==
    (job.kind = "n" /\ answer # NoAnswer) =>
        /\ answer.outcome = "ok"
        /\ answer.called_with = job.t
        /\ answer.url = job.p \o NChallenge \o call_f(job.f, job.t) \o <<"&">> \o job.r

\* A challenge was replaced by a result of another length, between a prefix
\* and a suffix
C13_Witness ==
    /\ job.kind = "n"
    /\ answer # NoAnswer
    /\ job.p # <<>>
    /\ job.r # <<>>
    /\ Len(call_f(job.f, job.t)) > Len(job.t)

AudioFileOption == <<"-", "-", "a", "u", "d", "i", "o", "-", "f", "i", "l", "e", "=">>

\* The url of a plain format with the challenge t replaced by f(t)
Substituted(tag, t, r) ==
    tag \o NChallenge \o call_f(PlayerScript.f, t) \o <<"&">> \o r

\* C31: for the selected plain video url and the selected plain audio url
\* alike, the value after "&n=" in the url handed to the player is the `n`
\* function applied to the challenge of that same url, also when the two
\* challenges differ.
C31_EachUrlItsOwnChallenge ==
    (job.kind = "pair" /\ answer # NoAnswer) =>
        /\ answer.outcome = "ok"
        /\ answer.args = <<AudioFileOption \o Substituted(<<"a">>, job.ta, job.r),
                           Substituted(<<"v">>, job.tv, job.r)>>

\* C31, for two formats that carry the same challenge
C31_SharedChallenge ==
    (job.kind = "pair" /\ answer # NoAnswer /\ job.ta = job.tv) =>
        /\ answer.outcome = "ok"
        /\ answer.args = <<AudioFileOption \o Substituted(<<"a">>, job.ta, job.r),
                           Substituted(<<"v">>, job.tv, job.r)>>

\* C31, the video url only
C31_VideoUrl ==
    (job.kind = "pair" /\ answer # NoAnswer) =>
        /\ answer.outcome = "ok"
        /\ answer.args[2] = Substituted(<<"v">>, job.tv, job.r)

\* C32: when the challenge is the last query parameter of the url it runs
\* to the end of the url: the substitution succeeds and gives the prefix
\* through "&n=" followed by the result of the `n` function.
C32_ChallengeAtTheEnd ==
    (job.kind = "last" /\ answer # NoAnswer) =>
        /\ answer.outcome = "ok"
        /\ answer.called_with = job.t
        /\ answer.url = job.p \o NChallenge \o call_f(job.f, job.t)

\* C32, second half: where a substitution is made, the end of the challenge
\* lies within the url
C32_EndWithinUrl ==
    (job.kind \in {"n", "last"} /\ answer # NoAnswer /\ answer.outcome = "ok") =>
        Unwrap(find(job.url, NChallenge)) + 3 + Len(answer.called_with) <= Len(job.url)

\* The i-th title is the title of the i-th detail
Aligned(titles, info) ==
    /\ Len(titles) = Len(info)
    /\ \A i \in 1..Len(titles) : titles[i] = info[i][1]

\* C39: after every request and every continue the titles and the details
\* have the same length and the i-th title is that of the i-th detail, for
\* every shape of response, a NextResponse with a description panel of no
\* or several header items included.
C39_TitlesAndDetailsAligned ==
    (job.kind = "decode" /\ answer # NoAnswer) => Aligned(answer.list, answer.info_vec)

\* C39, for a description panel with exactly one header item
C39_AlignedWithOneHeader ==
    (job.kind = "decode" /\ answer # NoAnswer
     /\ (job.decoder = "NextResponse" => Len(job.entries[1].headers) = 1)) =>
        Aligned(answer.list, answer.info_vec)

\* The signature is short enough for one byte per position
ShortSignature == Len(decode(job.s)) <= 128

\* C14: for a cipher string with the fields s, sp, url in this order the
\* result is the url field percent-decoded twice, "&", the sp value, "=" and
\* the descrambled signature.
C14_CipherReassembly ==
    (job.kind = "cipher" /\ answer # NoAnswer /\ ShortSignature
     /\ WellEscaped(job.s) /\ WellEscaped(job.url) /\ WellEscaped(decode(job.url))) =>
        /\ answer.outcome = "ok"
        /\ answer.out = decode(decode(job.url)) \o <<"&">> \o job.sp \o <<"=">>
                        \o Descramble(job.program, decode(job.s)).signature

\* C14, for url fields whose escapes do not spell the digits of an escape
C14_CipherReassemblyPlainDigits ==
    (job.kind = "cipher" /\ answer # NoAnswer /\ ShortSignature
     /\ WellEscaped(job.s) /\ WellEscaped(job.url) /\ WellEscaped(decode(job.url))
     /\ job.url # <<"%", "2", "5", "%", "3", "4", "%", "3", "1">>) =>
        /\ answer.outcome = "ok"
        /\ answer.out = decode(decode(job.url)) \o <<"&">> \o job.sp \o <<"=">>
                        \o Descramble(job.program, decode(job.s)).signature

\* C15: the descrambled signature is the function's steps applied to the
\* percent-decoded signature itself, for a signature of any length.
C15_DescrambleByPosition ==
    (job.kind = "cipher" /\ answer # NoAnswer /\ WellEscaped(replace_percent(job.url))) =>
        /\ answer.outcome = "ok"
        /\ answer.signature = call_s(job.program, decode(job.s))

\* C15, for signatures of at most 128 characters
C15_DescrambleShort ==
    (job.kind = "cipher" /\ answer # NoAnswer /\ WellEscaped(replace_percent(job.url))
     /\ ShortSignature) =>
        /\ answer.outcome = "ok"
        /\ answer.signature = call_s(job.program, decode(job.s))

(***************************************************************************)
(* Video activation                                                        *)
(***************************************************************************)
\* The step is the activation of a Video node
ActivatesVideo == Handles("enter") /\ SelectedNode.kind = "Video"

ScriptUrls == {"https://www.youtube.com/watch/", "https://www.youtube.com/s/player/base.js"}

\* C16: the script engine is absent until a video activation, present after
\* the first video activation that comes back to the loop, never dropped
\* afterwards, and once it is present no step fetches the watch page or the
\* player script or searches the markers again.
C16_ScriptBuiltOnce ==
    [][/\ js_script => js_script'
       /\ (~js_script /\ js_script') => ActivatesVideo
       /\ (ActivatesVideo /\ ~js_script /\ pc' = "loop") => js_script'
       /\ js_script => /\ anchors' = anchors
                       /\ \A i \in 1..Len(transfers') : transfers'[i].url \notin ScriptUrls]_vars

\* A video was played through the cached script
C16_Witness ==
    /\ pc = "loop"
    /\ last = "enter"
    /\ js_script
    /\ Len(transfers) = 1
    /\ transfers[1].url = "/youtubei/v1/player"
    /\ spawned # <<>>

\* The player response of the activated video does not decode, and the
\* script was there or could be built
DecodeError(result) ==
    /\ ActivatesVideo
    /\ PlayerResponse(SelectedNode.a).result = result
    /\ js_script \/ anchors' = AllFound

\* C17: a decode error of the player response is not fatal when it is the
\* missing streamingData error and fatal when it is any other, with and
\* without a cached script.
C17_OnlyMissingStreamingDataIsRecoverable ==
    [][/\ DecodeError("missing streamingData") => pc' # "panic"
       /\ DecodeError("invalid") => pc' = "panic"]_vars

\* C17, with the script cached
C17_CachedBranch ==
    [][js_script => /\ DecodeError("missing streamingData") => pc' # "panic"
                    /\ DecodeError("invalid") => pc' = "panic"]_vars

\* C18: when the activated video is unavailable the terminal leaves raw mode
\* and the alternate screen and the session waits for the acknowledgement,
\* after which it is back in raw mode on the alternate screen in the main
\* loop; page, items and selection stay as they were; with and without a
\* cached script.
C18_UnavailableVideoPauses ==
    [][/\ DecodeError("missing streamingData") =>
             /\ pc' = "ack"
             /\ ~raw_mode' /\ ~alternate_screen'
             /\ UNCHANGED <<page, list, info_vec, list_state>>
       /\ pc = "ack" =>
             /\ pc' = "loop"
             /\ raw_mode' /\ alternate_screen'
             /\ UNCHANGED <<page, list, info_vec, list_state>>]_vars

\* C18, with the script cached
C18_CachedBranch ==
    [][js_script =>
          /\ DecodeError("missing streamingData") =>
                /\ pc' = "ack"
                /\ ~raw_mode' /\ ~alternate_screen'
                /\ UNCHANGED <<page, list, info_vec, list_state>>
          /\ pc = "ack" =>
                /\ pc' = "loop"
                /\ raw_mode' /\ alternate_screen'
                /\ UNCHANGED <<page, list, info_vec, list_state>>]_vars

C20_MissingAnchorIsFatal ==
    [][(ActivatesVideo /\ ~js_script /\ anchors' # AllFound) =>
          /\ pc' = "panic"
          /\ ~js_script'
          /\ spawned' = <<>>]_vars

\* The terminator of the sig function was the one marker missing
C20_Witness ==
    /\ pc = "panic"
    /\ last = "enter"
    /\ ~js_script
    /\ anchors = [AllFound EXCEPT !["sig_end"] = FALSE]
    /\ Len(transfers) = 2
    /\ spawned = <<>>

(***************************************************************************)
(* Claims on the player that play starts                                   *)
(***************************************************************************)
\* C21: when the adaptive formats of an on-demand response hold no video
\* format or no audio format, play panics and no player is started.
C21_MissingTrackIsFatal ==
    (Selected /\ (VideoPositions = {} \/ AudioPositions = {})) =>
        /\ play_pc = "panic"
        /\ answer.program = ""
        /\ answer.args = <<>>

\* Video formats only: the audio track is the one missing
C21_Witness ==
    /\ Selected
    /\ VideoPositions # {}
    /\ AudioPositions = {}
    /\ play_pc = "panic"

\* The playable URL of a format: its url with the `n` challenge solved, or its
\* signatureCipher deciphered
Resolved(format) ==
    IF format.kind \in {"Video", "Audio"}
    THEN SolveChallenge(format.url, PlayerScript.f).url
    ELSE decipher_signature(PlayerScript.s, format.signatureCipher, TRUE).out

C22_WitnessOnDemand ==
    /\ play_pc = "spawned"
    /\ hlsManifestUrl = None
    /\ adaptiveFormats[ideal_video].kind = "Video"
    /\ adaptiveFormats[ideal_audio].kind = "AudioCipher"

C26_EmptySelectorTakesFirst ==
    Selected =>
        /\ (video_selector = <<>> /\ VideoPositions # {}) =>
              /\ ideal_video \in VideoPositions
              /\ \A i \in VideoPositions : ideal_video <= i
        /\ (audio_selector = <<>> /\ AudioPositions # {}) =>
              /\ ideal_audio \in AudioPositions
              /\ \A i \in AudioPositions : ideal_audio <= i

\* The video half of C26
C26_EmptyVideoSelectorTakesFirst ==
    (Selected /\ video_selector = <<>> /\ VideoPositions # {}) =>
        /\ ideal_video \in VideoPositions
        /\ \A i \in VideoPositions : ideal_video <= i

\* C30: whenever a video format and an audio format exist, play starts the
\* player on two URLs, whichever of the two selected formats is ciphered.
C30_EveryObfuscationResolves ==
    (Selected /\ VideoPositions # {} /\ AudioPositions # {}) =>
        /\ play_pc = "spawned"
        /\ Len(answer.args) = 2

\* The three combinations other than (ciphered video, plain audio)
C30_ButCipheredVideoPlainAudio ==
    (/\ Selected
     /\ VideoPositions # {}
     /\ AudioPositions # {}
     /\ ~(/\ adaptiveFormats[ideal_video].kind = "VideoCipher"
          /\ adaptiveFormats[ideal_audio].kind = "Audio")) =>
        /\ play_pc = "spawned"
        /\ Len(answer.args) = 2

(***************************************************************************)
(* Claims on the cursor                                                    *)
(***************************************************************************)
Max(a, b) == IF a > b THEN a ELSE b

\* C27: a move, a page move, a refresh or a back never ends the session,
\* whatever the cursor, the list and the terminal height: a target out of
\* range is clamped, with no underflow and no index out of bounds.
C27_OutOfRangeIsNoOp ==
    [][(\E event \in {"down", "up", "pagedown", "pageup", "refresh", "back"} :
            Handles(event)) => pc' = "loop"]_vars

\* The single steps and the refresh of C27
C27_StepsAndRefresh ==
    [][(\E event \in {"down", "up", "refresh"} : Handles(event)) => pc' = "loop"]_vars

\* C28: page-down moves the cursor down by half the terminal height and
\* page-up moves it up by as much, both clamped to the loaded list; a single
\* step moves it by one.
C28_PageMovesByHalfHeight ==
    [][/\ (Handles("pagedown") /\ pc' = "loop") =>
             \E height \in TerminalHeights :
                list_state' = Min(list_state + (height \div 2), Len(info_vec') - 1)
       /\ (Handles("pageup") /\ pc' = "loop") =>
             \E height \in TerminalHeights :
                list_state' = Max(list_state - (height \div 2), 0)
       /\ (Handles("down") /\ pc' = "loop") =>
             list_state' = Min(list_state + 1, Len(info_vec') - 1)
       /\ (Handles("up") /\ pc' = "loop") =>
             list_state' = Max(list_state - 1, 0)]_vars

\* The single steps of C28
C28_SingleStep ==
    [][/\ (Handles("down") /\ pc' = "loop") =>
             list_state' = Min(list_state + 1, Len(info_vec') - 1)
       /\ (Handles("up") /\ pc' = "loop") =>
             list_state' = Max(list_state - 1, 0)]_vars

\* C29: whenever the loop draws, the selected index is below the number of
\* loaded detail entries of the current page (every fetch of the backend
\* returns at least one item).
C29_SelectionInRange ==
    list_state < Len(info_vec)

\* C29 but for the back intent
C29_SelectionInRangeButBack ==
    last # "back" => list_state < Len(info_vec)

(***************************************************************************)
(* Claims on the transfers                                                 *)
(***************************************************************************)
\* A handler is between handing a request to perform() and the end of what
\* it does with the answer
Busy == pc \in {"request", "continue", "player", "wait"}

\* C23: at most one request is in flight at any time, and between the start
\* of a list fetch, a continuation fetch or a playback and its end no event
\* is read and no other handler starts.
C23_OneTransferAtATime ==
    /\ [](Len(in_flight) <= 1)
    /\ [](in_flight # <<>> => pc \in {"request", "continue", "player"})
    /\ [][Busy => /\ last' = last
                  /\ Len(in_flight') <= Len(in_flight)]_vars

\* The player runs, started by a transfer that has returned
C23_Witness ==
    /\ pc = "wait"
    /\ in_flight = <<>>
    /\ last = "enter"
    /\ Len(transfers) = 1
    /\ spawned # <<>>

\* C24: a transfer is attempted once, and when it fails the operation is
\* aborted: the failure ends the handler, not retried, with the page, its
\* list and its stored continuation as they were.
C24_FailedTransferAborts ==
    [][(pc \in {"request", "continue", "player"}) =>
          /\ in_flight' = <<>>
          /\ Len(transfers') = 1
          /\ perform'.result = "Err" =>
                /\ pc' = "panic"
                /\ UNCHANGED <<page, list, info_vec>>]_vars

\* The part of C24 on retries: one attempt, whatever its result
C24_AttemptedOnce ==
    [][(pc \in {"request", "continue", "player"}) =>
          /\ in_flight' = <<>>
          /\ Len(transfers') = 1]_vars

\* The part of C24 on transfers that delivered nothing
C24_NothingReceivedAborts ==
    [][(pc \in {"request", "continue", "player"} /\ perform'.received = "none") =>
          /\ pc' = "panic"
          /\ UNCHANGED <<page, list, info_vec>>]_vars

(***************************************************************************)
(* Pagination: a session that, from its first single step down on, only    *)
(* steps down                                                              *)
(***************************************************************************)
NextPaginate ==
    \/ last # "down" /\ (Enter \/ Acknowledge \/ Search \/ ShowNext \/ PageDown)
    \/ MoveDown

SpecPaginate == Init /\ [][NextPaginate]_vars /\ WF_vars(MoveDown)

\* The items of a response and of the whole chain of continuations behind it
RECURSIVE ChainItems(_)
ChainItems(entries) ==
    IF entries = <<>> THEN <<>>
    ELSE IF entries[Len(entries)].type = "continuation"
         THEN ChainItems(SubSeq(entries, 1, Len(entries) - 1))
              \o ChainItems(ContinuationEntries(entries[Len(entries)].token))
    ELSE Append(ChainItems(SubSeq(entries, 1, Len(entries) - 1)),
                <<entries[Len(entries)].title, entries[Len(entries)].node>>)

\* The page is exhausted, with every item of its chain loaded and the cursor
\* on the last of them
Exhausted ==
    /\ Stored(page) = None
    /\ info_vec = ChainItems(Respond(request(page).transfers[1]))
    /\ list_state + 1 = Len(info_vec)

\* C33: on every page variant that carries a continuation, repeated single
\* steps down eventually bring the page to the exhausted state, with the
\* items of every page of the chain loaded and the cursor on the last one.
C33_PaginationCompletes ==
    (pc = "loop" /\ last = "down" /\ page.kind # "Transcript") ~> Exhausted

\* C33, for the variants that Page::continue matches
C33_PaginationCompletesButCategory ==
    (pc = "loop" /\ last = "down" /\ page.kind \in ContinueArms) ~> Exhausted

(***************************************************************************)
(* Claims on the intents, one at a time                                    *)
(***************************************************************************)
\* C34: a single step down made on the last loaded item lands on the first
\* appended item (the old length) when the continuation fetch appends
\* something and stays on the last item when nothing is appended; a page
\* down lands on the smaller of its target (half the height and one more
\* below the cursor) and the last index of the list as it is after the fetch.
C34_CursorAfterLazyLoad ==
    [][/\ (Handles("down") /\ list_state + 1 = Len(info_vec)) =>
             /\ pc' = "loop"
             /\ list_state' = IF Len(info_vec') > Len(info_vec) THEN Len(info_vec)
                              ELSE list_state
       /\ Handles("pagedown") =>
             /\ pc' = "loop"
             /\ \E height \in TerminalHeights :
                   list_state' = Min(list_state + (height \div 2) + 1,
                                     Len(info_vec') - 1)]_vars

\* A step down has loaded two items and the cursor is on the first of them
C34_Witness ==
    /\ pc = "loop"
    /\ last = "down"
    /\ Len(transfers) = 1
    /\ IsSome(transfers[1].continuation)
    /\ list_state + 2 = Len(info_vec)

\* A page down has loaded more items and the cursor is on the last of them
C34_WitnessPage ==
    /\ pc = "loop"
    /\ last = "pagedown"
    /\ Len(transfers) = 1
    /\ IsSome(transfers[1].continuation)
    /\ list_state + 1 = Len(info_vec)

\* C35: a refresh sends the request of the current page again and keeps
\* the variant of the page and every link below it; afterwards the items
\* are those of that response alone, the ones that continuation fetches had
\* added being gone, and the cursor is on the smaller of its old index and
\* the new last index.
C35_RefreshReissues ==
    [][Handles("refresh") =>
          /\ pc' = "loop"
          /\ AsBuilt(page') = AsBuilt(page)
          /\ transfers' = request(AsBuilt(page)).transfers
          /\ list' = Decoded(transfers'[1]).list
          /\ info_vec' = Decoded(transfers'[1]).info_vec
          /\ list_state' = Min(list_state, Len(info_vec') - 1)]_vars

\* A refresh below the home page has dropped the items of a continuation
\* and pulled the cursor back to the last item
C35_Witness ==
    /\ pc = "loop"
    /\ last = "refresh"
    /\ Links(page) > 0
    /\ IsSome(Stored(page))
    /\ list_state > 0
    /\ list_state + 1 = Len(info_vec)

\* C36: going home from any state leaves a Home page without a previous
\* link, the cursor on 0 and the items of a fresh fetch of the home page; a
\* back right after it keeps the page, sends nothing, keeps the items and
\* leaves the cursor on 0.
C36_HomeDropsTheStack ==
    [][/\ Handles("home") =>
             /\ pc' = "loop"
             /\ page'.kind = "Home"
             /\ Links(page') = 0
             /\ list_state' = 0
             /\ transfers' = <<Get("https://www.youtube.com")>>
             /\ list' = Decoded(transfers'[1]).list
             /\ info_vec' = Decoded(transfers'[1]).info_vec
       /\ (Handles("back") /\ last = "home") =>
             /\ pc' = "loop"
             /\ page' = page
             /\ transfers' = <<>>
             /\ UNCHANGED <<list, info_vec>>
             /\ list_state' = 0]_vars

\* The home key was pressed with a script cached, that is after a video was
\* played from some page
C36_Witness ==
    /\ pc = "loop"
    /\ last = "home"
    /\ js_script
    /\ page.kind = "Home"
    /\ list_state = 0

\* C37: on a Video node the key pushes the page of the videos related to it,
\* with the page left and the selected index as its previous link, the
\* cursor on 0 and the items of its fetch; on any other node nothing is sent
\* and page, items and cursor stay as they are.
C37_RelatedOnlyForVideos ==
    [][Handles("next") =>
          /\ pc' = "loop"
          /\ IF SelectedNode.kind = "Video"
             THEN /\ page' = [PageNext(SelectedNode.a, None, <<page, list_state>>)
                                  EXCEPT !.continuation = Decoded(transfers'[1]).continuation]
                  /\ transfers' = <<HttpRequest("POST", "/youtubei/v1/next", None, None,
                                                None, Some(SelectedNode.a), None)>>
                  /\ list' = Decoded(transfers'[1]).list
                  /\ info_vec' = Decoded(transfers'[1]).info_vec
                  /\ list_state' = 0
             ELSE /\ transfers' = <<>>
                  /\ UNCHANGED <<page, list, info_vec, list_state>>]_vars

\* The related videos of a video that was not on the first item
C37_Witness ==
    /\ pc = "loop"
    /\ last = "next"
    /\ page.kind = "Next"
    /\ page.previous[2] > 0
    /\ list_state = 0

\* The key was pressed on a node that is no video
C37_WitnessOther ==
    /\ pc = "loop"
    /\ last = "next"
    /\ transfers = <<>>
    /\ SelectedNode.kind # "Video"

\* C38: the step of a page up, half the terminal height less one on 16
\* bits, does not underflow on any height: the key never ends the session
\* and the cursor goes up by that step, stopping at 0.
C38_PageUpStepInRange ==
    [][Handles("pageup") =>
          /\ pc' = "loop"
          /\ \E height \in TerminalHeights :
                /\ list_state - list_state' <= Max((height \div 2) - 1, 0)
                /\ list_state' = Max(list_state - Max((height \div 2) - 1, 0), 0)]_vars

\* C38, second half: a page up that comes back to the loop leaves the
\* cursor at or above where it was, never below 0
C38_NeverBelowZero ==
    [][(Handles("pageup") /\ pc' = "loop") =>
          list_state' >= 0 /\ list_state' <= list_state]_vars

====
